---- MODULE Spec2Model ----
(***************************************************************************)
(* Verification model of github.com/AxelTahmid/openapi-gen.                *)
(*                                                                         *)
(* Part I  (SpecCache, SpecIndex): the process-wide state of the package - the   *)
(*   spec cache (specCache, cacheValid, cacheMutex) and the type index     *)
(*   (typeIndex, typeIndexOnce, externalKnownTypes) - under concurrent     *)
(*   callers of CachedHandler, GenerateOpenAPISpecFile, InvalidateCache,   *)
(*   GetTypeIndex, NewGenerator and AddExternalKnownType.                  *)
(* Part II (SpecSchema): the type-to-schema engine of one SchemaGenerator. *)
(***************************************************************************)
EXTENDS Integers, Sequences, FiniteSets, TLC

\* ------------------------------------------------------------------------
\* Bounds of the model
\* ------------------------------------------------------------------------

\* number of concurrent goroutines serving requests
NumProcs == 2

\* total number of operations started in one behaviour
MaxRequests == 3

\* number of distinct (router, config) pairs handed to CachedHandler
NumHandlers == 2

Procs == 1..NumProcs

Handlers == 1..NumHandlers

\* names looked up in / registered into the known-external override table
ExtNames == {"time.Time", "external.Type"}

\* ------------------------------------------------------------------------
\* Part I: state
\* ------------------------------------------------------------------------
VARIABLES
    specCache,      \* var specCache Spec: which run wrote each part of it
    cacheValid,     \* var cacheValid bool
    cacheMutex,     \* var cacheMutex sync.RWMutex: [writer, readers]
    typeIndex,      \* var typeIndex *TypeIndex: 0 is nil, else the instance
    typeIndexOnce,  \* var typeIndexOnce sync.Once: "fresh" | "running" | "done"
    builds,         \* number of BuildTypeIndex runs so far (= instances made)
    extTable,       \* instance -> externalKnownTypes map of that instance
    mapWriting,     \* instance -> goroutines in the middle of a map write
    crashed,        \* the runtime aborted: "concurrent map read and map write"
    file,           \* the file at filePath: [state, spec]
    pc,             \* per goroutine: position in its current operation
    op,             \* per goroutine: the operation it runs and its inputs
    loc,            \* per goroutine: local variables of the operation
    runInfo,        \* history: one record per GenerateSpec run started
    nreq,           \* number of operations started
    invalCount,     \* history: number of InvalidateCache calls that returned
    usedIdx,        \* history: index instances handed to some caller
    schemas,        \* SchemaGenerator.schemas: qualified name -> *Schema
    stack,          \* call stack of the schema engine, innermost call last
    retv,           \* the value the call that returned last handed back
    returned,       \* history: one record per call that has returned
    ncalls,         \* number of top-level requests made to the generator
    applied         \* the last call of a function on inputs of its own

cacheVars == <<specCache, cacheValid, cacheMutex>>

indexVars == <<typeIndex, typeIndexOnce, builds, extTable, mapWriting>>

vars == <<specCache, cacheValid, cacheMutex, typeIndex, typeIndexOnce, builds,
          extTable, mapWriting, crashed, file, pc, op, loc, runInfo, nreq,
          invalCount, usedIdx, schemas, stack, retv, returned, ncalls,
          applied>>

\* The state of one SchemaGenerator and of the calls running on it.
schemaVars == <<schemas, stack, retv, returned, ncalls>>

\* The package variables and the goroutines of Part I.
packageVars == <<specCache, cacheValid, cacheMutex, typeIndex, typeIndexOnce,
                 builds, extTable, mapWriting, crashed, file, pc, op, loc,
                 runInfo, nreq, invalCount, usedIdx>>

\* No function has been called on inputs of its own.
NotApplied == [fn |-> "", args |-> <<>>, out |-> <<>>]

\* A function fn is called with the arguments args and returns out; the
\* generator and the package variables are not touched. The functions called
\* this way keep nothing between two calls, so a behaviour holds one call.
Apply(fn, args, out) ==
    /\ applied = NotApplied
    /\ applied' = [fn |-> fn, args |-> args, out |-> out]
    /\ UNCHANGED <<schemaVars, packageVars>>

\* The zero value of Spec (no run wrote it).
ZeroSpec == [paths |-> 0, comps |-> 0]

\* The document a GenerateSpec run r returns: every part written by r.
SpecOfRun(r) == [paths |-> r, comps |-> r]

\* A document is complete when all of it comes from one GenerateSpec run.
Complete(s) == s.paths = s.comps /\ s.paths # 0

Instances == 1..(NumProcs + 1)

\* externalKnownTypes as make(map[string]*Schema) leaves it: no entry
EmptyTable == [n \in ExtNames |-> "none"]

\* externalKnownTypes as ensureTypeIndex sets it: the built-in overrides
DefaultTable == [n \in ExtNames |-> IF n = "time.Time" THEN "builtin" ELSE "none"]

IdleOp == [kind |-> "none", h |-> 0, refresh |-> FALSE, name |-> "", epoch |-> 0]

IdleLoc == [ok |-> FALSE, sawValid |-> FALSE, run |-> 0, idx |-> 0,
            seen |-> "unread", ret |-> ZeroSpec, err |-> FALSE]

\* ------------------------------------------------------------------------
\* Part II: the schema engine - names, schemas and the declarations indexed
\* ------------------------------------------------------------------------

\* A type name (a Go string) by its parts: the markers it starts with
\* ("[]", "*", "map["), the package before the "." ("" when the name holds
\* no "."), and the identifier.  "[]a.Node" is
\* [pre |-> <<"[]">>, pkg |-> "a", id |-> "Node"].
TypeName(pre, pkg, id) == [pre |-> pre, pkg |-> pkg, id |-> id]

\* pkg + "." + typeName
Qualified(pkg, id) == TypeName(<<>>, pkg, id)

\* A name without package: "Node", "int"
Bare(id) == TypeName(<<>>, "", id)

NoName == Bare("")

\* strings.HasPrefix(typeName, m) for a marker m
HasPrefix(n, m) == Len(n.pre) > 0 /\ Head(n.pre) = m

\* strings.TrimPrefix(typeName, m) for the marker the name starts with
TrimPrefix(n) == [n EXCEPT !.pre = Tail(@)]

\* strings.Contains(typeName, ".")
ContainsDot(n) == n.pkg # ""

\* Schema.Ref of a schema that is no reference
NoRef == [prefix |-> "", name |-> NoName]

\* The zero value of Schema (the fields the engine sets).
\* A pointer field (*bool, *int, *float64) is <<>> for nil and <<v>> otherwise.
ZeroSchema ==
    [type |-> "", ref |-> NoRef, description |-> "", format |-> "",
     items |-> <<>>, additionalProperties |-> <<>>, properties |-> <<>>,
     required |-> <<>>, enum |-> <<>>, oneOf |-> <<>>,
     pattern |-> "", example |-> "", title |-> "", default |-> "",
     deprecated |-> <<>>, readOnly |-> <<>>, writeOnly |-> <<>>,
     uniqueItems |-> <<>>, minimum |-> <<>>, maximum |-> <<>>,
     minLength |-> <<>>, maxLength |-> <<>>, minItems |-> <<>>,
     maxItems |-> <<>>]

\* &Schema{Type: t}
TypeSchema(t) == [ZeroSchema EXCEPT !.type = t]

\* &Schema{Ref: "#/components/schemas/" + qualified}
RefSchema(q) ==
    [ZeroSchema EXCEPT !.ref = [prefix |-> "#/components/schemas/", name |-> q]]

\* &Schema{Type: "array", Items: elem}
ArraySchema(elem) == [ZeroSchema EXCEPT !.type = "array", !.items = <<elem>>]

\* &Schema{Type: "object", AdditionalProperties: value}
MapSchema(value) ==
    [ZeroSchema EXCEPT !.type = "object", !.additionalProperties = <<value>>]

\* schema.Properties[jsonName] = fieldSchema
SetProperty(props, jsonName, fieldSchema) ==
    [k \in (DOMAIN props) \cup {jsonName} |->
        IF k = jsonName THEN fieldSchema ELSE props[k]]

\* SchemaGenerator.schemas of a new generator: an empty map
NoSchemas == <<>>

\* No call has returned a value that its caller still has to take.
NoReturn == [set |-> FALSE, val |-> ZeroSchema]

\* A struct tag by the parts the engine reads: the name of the json key,
\* whether the json key has the option omitempty, the key=value parts of the
\* openapi key in their order (a value is its pieces between "|"), and the
\* words of the validate key and of the binding key.
Tag(json, omitempty, openapi, validate, binding) ==
    [present |-> TRUE, json |-> json, omitempty |-> omitempty,
     openapi |-> openapi, validate |-> validate, binding |-> binding]

\* A tag with a json key only
JSONTag(json, omitempty) == Tag(json, omitempty, <<>>, {}, {})

\* field.Tag == nil
NoTag ==
    [present |-> FALSE, json |-> "", omitempty |-> FALSE, openapi |-> <<>>,
     validate |-> {}, binding |-> {}]

\* A field's type expression: the wrappers around it from the outside in
\* ("*" ast.StarExpr, "[]" ast.ArrayType, "map[" ast.MapType) and the
\* innermost expression: an ast.Ident (obj: the parser resolved it to a type
\* declared in the same file), an ast.SelectorExpr pkg.id, or an
\* ast.InterfaceType.
Expr(w, k, pkg, id, obj) == [w |-> w, k |-> k, pkg |-> pkg, id |-> id, obj |-> obj]

Ident(id) == Expr(<<>>, "ident", "", id, FALSE)

\* an identifier of a type declared in the same file (ident.Obj != nil)
Local(id) == Expr(<<>>, "ident", "", id, TRUE)

Selector(pkg, id) == Expr(<<>>, "selector", pkg, id, FALSE)

Interface == Expr(<<>>, "interface", "", "", FALSE)

Star(x) == [x EXCEPT !.w = <<"*">> \o @]

Array(x) == [x EXCEPT !.w = <<"[]">> \o @]

Map(x) == [x EXCEPT !.w = <<"map[">> \o @]

\* One entry of structType.Fields.List: name is field.Names[0].Name, "" for
\* an embedded field (len(field.Names) == 0); exported is
\* ast.IsExported(fieldName); rest is field.Names[1:], the further names of
\* a declaration such as "Width, Height int".
Field(name, exported, expr, tag) ==
    [name |-> name, exported |-> exported, expr |-> expr, tag |-> tag,
     rest |-> <<>>]

\* An entry of structType.Fields.List that declares several members at
\* once; the names are exported ones.
FieldList(names, expr, tag) ==
    [Field(Head(names), TRUE, expr, tag) EXCEPT !.rest = Tail(names)]

StructType(fields) == [kind |-> "struct", fields |-> fields]

\* typeIndex.types (package -> type -> spec) as indexFile fills it from the
\* files scanned.  The packages declare record types that hold a member of
\* their own type directly (Loop), through a pointer and a slice (Node) and
\* through a cycle of two types (Ping, Pong); both packages declare a User.
ModelTypes ==
    [id \in {"Loop", "Node", "Ping", "Pong", "User"} |->
        CASE id = "Loop" ->
               StructType(<<Field("Self", TRUE, Local("Loop"), NoTag)>>)
          [] id = "Node" ->
               StructType(<<
                 Field("Val", TRUE, Ident("int"), JSONTag("val", FALSE)),
                 Field("Next", TRUE, Star(Local("Node")), JSONTag("next", TRUE)),
                 Field("Kids", TRUE, Array(Local("Node")), JSONTag("kids", FALSE))>>)
          [] id = "Ping" ->
               StructType(<<
                 Field("Peer", TRUE, Star(Ident("Pong")), JSONTag("peer", FALSE)),
                 Field("At", TRUE, Selector("time", "Time"), JSONTag("at", FALSE))>>)
          [] id = "Pong" ->
               StructType(<<
                 Field("Back", TRUE, Ident("Ping"), JSONTag("back", FALSE)),
                 Field("Tree", TRUE, Star(Ident("Node")), NoTag),
                 Field("note", FALSE, Ident("string"), NoTag)>>)
          [] OTHER ->
               StructType(<<
                 Field("ID", TRUE, Ident("int"), NoTag),
                 Field("Email", TRUE, Star(Ident("string")),
                       Tag("email", TRUE, <<>>, {"required", "email"}, {})),
                 Field("Friend", TRUE, Star(Local("User")), NoTag)>>)]

StoreTypes ==
    [id \in {"User", "Page", "Form"} |->
        CASE id = "User" ->
             StructType(<<
               Field("Name", TRUE, Ident("string"), JSONTag("name", FALSE)),
               Field("Owner", TRUE, Selector("model", "Node"), JSONTag("owner", FALSE)),
               Field("", TRUE, Ident("Page"), NoTag)>>)
          [] id = "Page" ->
             StructType(<<
               Field("Items", TRUE, Array(Ident("User")), JSONTag("items", FALSE)),
               Field("Meta", TRUE, Map(Interface), JSONTag("-", FALSE)),
               Field("Counts", TRUE, Map(Array(Ident("uint8"))), NoTag),
               FieldList(<<"Width", "Height">>, Ident("int"), NoTag)>>)
          [] OTHER ->
             StructType(<<
               Field("Title", TRUE, Ident("string"), JSONTag("title", FALSE)),
               Field("Note", TRUE, Star(Ident("string")), JSONTag("note", FALSE)),
               Field("Tags", TRUE, Array(Ident("string")), JSONTag("tags", TRUE)),
               Field("Ref", TRUE, Star(Ident("int")), JSONTag("ref", TRUE)),
               Field("Email", TRUE, Ident("string"),
                     Tag("email", FALSE, <<>>, {"omitempty", "email"}, {})),
               Field("Age", TRUE, Ident("int"), NoTag),
               Field("Site", TRUE, Ident("string"),
                     Tag("", FALSE, <<<<"format", <<"date">>>>,
                                      <<"title", <<"Site">>>>>>,
                         {"url"}, {"required"}))>>)]

Packages == {"model", "store"}

types == [pkg \in Packages |-> IF pkg = "model" THEN ModelTypes ELSE StoreTypes]

\* typeIndex.externalKnownTypes as ensureTypeIndex sets it (two of its
\* entries; the others have the same shape).
externalKnownTypes ==
    [n \in {Qualified("time", "Time"), TypeName(<<"*">>, "time", "Time")} |->
        IF n.pre = <<>>
        THEN [ZeroSchema EXCEPT !.type = "string", !.format = "date-time",
                                !.description = "RFC3339 date-time"]
        ELSE [ZeroSchema EXCEPT
                !.oneOf = <<[ZeroSchema EXCEPT !.type = "string",
                                               !.format = "date-time"],
                            TypeSchema("null")>>,
                !.description = "Nullable RFC3339 date-time"]]

Init ==
    /\ specCache = ZeroSpec
    /\ cacheValid = FALSE
    /\ cacheMutex = [writer |-> 0, readers |-> {}]
    /\ typeIndex = 0
    /\ typeIndexOnce = "fresh"
    /\ builds = 0
    /\ extTable = [i \in Instances |-> EmptyTable]
    /\ mapWriting = [i \in Instances |-> {}]
    /\ crashed = FALSE
    /\ file = [state |-> "none", spec |-> ZeroSpec]
    /\ pc = [p \in Procs |-> "idle"]
    /\ op = [p \in Procs |-> IdleOp]
    /\ loc = [p \in Procs |-> IdleLoc]
    /\ runInfo = <<>>
    /\ nreq = 0
    /\ invalCount = 0
    /\ usedIdx = {}
    /\ schemas = NoSchemas
    /\ stack = <<>>
    /\ retv = NoReturn
    /\ returned = {}
    /\ ncalls = 0
    /\ applied = NotApplied

\* ------------------------------------------------------------------------
\* Part I: helpers
\* ------------------------------------------------------------------------

SetLoc(p, f, v) == [loc EXCEPT ![p][f] = v]

\* Where an operation continues once ensureTypeIndex() has returned.
AfterEnsure(kind) ==
    CASE kind = "addext" -> "aekt_begin"
      [] kind = "newgen" -> "newgen"
      [] OTHER -> "get_rlock"

\* Where fetchSpec's caller continues: CachedHandler writes the response,
\* GenerateOpenAPISpecFile goes on to create the file.
AfterFetch(kind) == IF kind = "file" THEN "file_create" ELSE "ret"

\* Mutant of CanRLock: the reader does not wait for the writer (getCachedSpec
\* without its RLock).
CanRLockNoWait == TRUE

\* sync.RWMutex: RLock succeeds when no writer holds the mutex.
CanRLock == cacheMutex.writer = 0

\* sync.RWMutex: Lock succeeds when nobody holds the mutex.
CanLock == cacheMutex.writer = 0 /\ cacheMutex.readers = {}

Begin(p, kind, h, refresh, name, first) ==
    /\ ~crashed
    /\ UNCHANGED <<schemaVars, applied>>
    /\ pc[p] = "idle"
    /\ nreq < MaxRequests
    /\ nreq' = nreq + 1
    /\ op' = [op EXCEPT ![p] = [kind |-> kind, h |-> h, refresh |-> refresh,
                                name |-> name, epoch |-> invalCount]]
    /\ pc' = [pc EXCEPT ![p] = first]
    /\ UNCHANGED <<cacheVars, indexVars, crashed, file, loc, runInfo,
                   invalCount, usedIdx>>

\* ------------------------------------------------------------------------
\* Part I: the operations a goroutine may start
\* ------------------------------------------------------------------------

\* A request reaches the handler CachedHandler(router, cfg) returned, for
\* the (router, cfg) pair h, with or without ?refresh=true.
CachedHandler(p) ==
    \E h \in Handlers, r \in BOOLEAN : Begin(p, "handler", h, r, "", "ensure")

GenerateOpenAPISpecFile(p) ==
    \E h \in Handlers, r \in BOOLEAN : Begin(p, "file", h, r, "", "ensure")

InvalidateCache(p) == Begin(p, "invalidate", 0, FALSE, "", "inv_lock")

GetTypeIndex(p) == Begin(p, "getindex", 0, FALSE, "", "gti_check")

AddExternalKnownType(p) ==
    \E n \in ExtNames : Begin(p, "addext", 0, FALSE, n, "ensure")

NewGenerator(p) == Begin(p, "newgen", 0, FALSE, "", "ensure")

\* ------------------------------------------------------------------------
\* ensureTypeIndex: typeIndexOnce.Do(func() { ... })
\* ------------------------------------------------------------------------

\* Once.Do: the first caller runs the function, a caller arriving while it
\* runs blocks, a caller arriving after it returned passes.
OnceDo(p) ==
    /\ ~crashed
    /\ UNCHANGED <<schemaVars, applied>>
    /\ pc[p] = "ensure"
    /\ \/ /\ typeIndexOnce = "fresh"
          /\ typeIndexOnce' = "running"
          /\ pc' = [pc EXCEPT ![p] = "once_build"]
       \/ /\ typeIndexOnce = "done"
          /\ pc' = [pc EXCEPT ![p] = AfterEnsure(op[p].kind)]
          /\ UNCHANGED typeIndexOnce
    /\ UNCHANGED <<cacheVars, typeIndex, builds, extTable, mapWriting, crashed,
                   file, op, loc, runInfo, nreq, invalCount, usedIdx>>

\* typeIndex = BuildTypeIndex()
OnceBuild(p) ==
    /\ ~crashed
    /\ UNCHANGED <<schemaVars, applied>>
    /\ pc[p] = "once_build"
    /\ builds' = builds + 1
    /\ typeIndex' = builds + 1
    /\ pc' = [pc EXCEPT ![p] = "once_ext"]
    /\ UNCHANGED <<cacheVars, typeIndexOnce, extTable, mapWriting, crashed,
                   file, op, loc, runInfo, nreq, invalCount, usedIdx>>

\* typeIndex.externalKnownTypes = map[string]*Schema{...}; Do returns
OnceSetExternal(p) ==
    /\ ~crashed
    /\ UNCHANGED <<schemaVars, applied>>
    /\ pc[p] = "once_ext"
    /\ extTable' = [extTable EXCEPT ![typeIndex] = DefaultTable]
    /\ typeIndexOnce' = "done"
    /\ pc' = [pc EXCEPT ![p] = AfterEnsure(op[p].kind)]
    /\ UNCHANGED <<cacheVars, typeIndex, builds, mapWriting, crashed, file,
                   op, loc, runInfo, nreq, invalCount, usedIdx>>

\* ------------------------------------------------------------------------
\* fetchSpec: getCachedSpec, NewGeneratorWithCache, GenerateSpec, setCachedSpec
\* ------------------------------------------------------------------------

\* getCachedSpec: cacheMutex.RLock()
GetCachedSpecRLock(p) ==
    /\ ~crashed
    /\ UNCHANGED <<schemaVars, applied>>
    /\ pc[p] = "get_rlock"
    /\ CanRLock
    /\ cacheMutex' = [cacheMutex EXCEPT !.readers = @ \cup {p}]
    /\ pc' = [pc EXCEPT ![p] = "get_read"]
    /\ UNCHANGED <<specCache, cacheValid, indexVars, crashed, file, op, loc,
                   runInfo, nreq, invalCount, usedIdx>>

\* Mutant of StillValid: the refresh flag is ignored.
StillValidIgnoringRefresh(valid, refresh) == valid

\* What getCachedSpec reports as "still valid".
StillValid(valid, refresh) == valid /\ ~refresh

\* Mutant of RUnlock: the read lock is not released on return.
RUnlockForgotten(p) == cacheMutex

\* The deferred cacheMutex.RUnlock() of getCachedSpec.
RUnlock(p) == [cacheMutex EXCEPT !.readers = @ \ {p}]

\* getCachedSpec: return specCache, cacheValid && !refresh; deferred RUnlock.
\* fetchSpec: if spec, ok := getCachedSpec(refresh); ok { return spec }
GetCachedSpecReturn(p) ==
    /\ ~crashed
    /\ UNCHANGED <<schemaVars, applied>>
    /\ pc[p] = "get_read"
    /\ LET ok == StillValid(cacheValid, op[p].refresh) IN
         /\ loc' = [loc EXCEPT ![p].ok = ok,
                               ![p].sawValid = cacheValid,
                               ![p].ret = IF ok THEN specCache ELSE @]
         /\ pc' = [pc EXCEPT ![p] = IF ok THEN AfterFetch(op[p].kind)
                                          ELSE "fetch_miss"]
    /\ cacheMutex' = RUnlock(p)
    /\ UNCHANGED <<specCache, cacheValid, indexVars, crashed, file, op,
                   runInfo, nreq, invalCount, usedIdx>>

\* fetchSpec: gen := NewGeneratorWithCache(typeIndex); gen.GenerateSpec(router,
\* cfg) starts: a run with a fresh SchemaGenerator over the index read here.
FetchSpecMiss(p) ==
    /\ ~crashed
    /\ UNCHANGED <<schemaVars, applied>>
    /\ pc[p] = "fetch_miss"
    /\ runInfo' = Append(runInfo, [h |-> op[p].h, epoch |-> invalCount])
    /\ loc' = [loc EXCEPT ![p].run = Len(runInfo) + 1, ![p].idx = typeIndex]
    /\ usedIdx' = usedIdx \cup {typeIndex}
    /\ pc' = [pc EXCEPT ![p] = "generate"]
    /\ UNCHANGED <<cacheVars, indexVars, crashed, file, op, nreq, invalCount>>

\* What a lookup of name n in the override table of instance i can yield.
\* While another goroutine is inside a write of the same map the read is a
\* data race: any of the old entry, the new entry or a torn one.
LookupOutcomes(i, n) ==
    IF mapWriting[i] = {}
    THEN {extTable[i][n]}
    ELSE {extTable[i][n], "user", "torn"}

\* GenerateSpec runs to its end: schema generation consults the override
\* table of its index (sg.typeIndex.externalKnownTypes[typeName]) and the
\* run returns its document. A racing map write may instead abort the
\* process (fatal error: concurrent map read and map write).
GenerateSpec(p) ==
    /\ ~crashed
    /\ UNCHANGED <<schemaVars, applied>>
    /\ pc[p] = "generate"
    /\ \E n \in ExtNames :
         \/ /\ \E v \in LookupOutcomes(loc[p].idx, n) :
                  loc' = [loc EXCEPT ![p].seen = v,
                                     ![p].ret = SpecOfRun(loc[p].run)]
            /\ pc' = [pc EXCEPT ![p] = "set_lock"]
            /\ UNCHANGED crashed
         \/ /\ mapWriting[loc[p].idx] # {}
            /\ crashed' = TRUE
            /\ UNCHANGED <<loc, pc>>
    /\ UNCHANGED <<cacheVars, indexVars, file, op, runInfo, nreq, invalCount,
                   usedIdx>>

\* setCachedSpec: cacheMutex.Lock(), and the copy specCache = s begins
\* (Spec is a multi-word struct: the copy is not one atomic store).
SetCachedSpecLock(p) ==
    /\ ~crashed
    /\ UNCHANGED <<schemaVars, applied>>
    /\ pc[p] = "set_lock"
    /\ CanLock
    /\ cacheMutex' = [cacheMutex EXCEPT !.writer = p]
    /\ specCache' = [specCache EXCEPT !.paths = loc[p].ret.paths]
    /\ pc' = [pc EXCEPT ![p] = "set_assign"]
    /\ UNCHANGED <<cacheValid, indexVars, crashed, file, op, loc, runInfo,
                   nreq, invalCount, usedIdx>>

\* setCachedSpec: the copy specCache = s completes; cacheValid = true
SetCachedSpecAssign(p) ==
    /\ ~crashed
    /\ UNCHANGED <<schemaVars, applied>>
    /\ pc[p] = "set_assign"
    /\ specCache' = [specCache EXCEPT !.comps = loc[p].ret.comps]
    /\ cacheValid' = TRUE
    /\ pc' = [pc EXCEPT ![p] = "set_unlock"]
    /\ UNCHANGED <<cacheMutex, indexVars, crashed, file, op, loc, runInfo,
                   nreq, invalCount, usedIdx>>

\* setCachedSpec: deferred cacheMutex.Unlock(); fetchSpec returns newSpec
SetCachedSpecUnlock(p) ==
    /\ ~crashed
    /\ UNCHANGED <<schemaVars, applied>>
    /\ pc[p] = "set_unlock"
    /\ cacheMutex' = [cacheMutex EXCEPT !.writer = 0]
    /\ pc' = [pc EXCEPT ![p] = AfterFetch(op[p].kind)]
    /\ UNCHANGED <<specCache, cacheValid, indexVars, crashed, file, op, loc,
                   runInfo, nreq, invalCount, usedIdx>>

\* ------------------------------------------------------------------------
\* GenerateOpenAPISpecFile after fetchSpec: os.Create, Encode
\* ------------------------------------------------------------------------

\* file, err := os.Create(filePath): fails and returns err, or truncates
FileCreate(p) ==
    /\ ~crashed
    /\ UNCHANGED <<schemaVars, applied>>
    /\ pc[p] = "file_create"
    /\ \/ /\ loc' = SetLoc(p, "err", TRUE)
          /\ pc' = [pc EXCEPT ![p] = "ret"]
          /\ UNCHANGED file
       \/ /\ file' = [state |-> "empty", spec |-> ZeroSpec]
          /\ pc' = [pc EXCEPT ![p] = "file_encode"]
          /\ UNCHANGED loc
    /\ UNCHANGED <<cacheVars, indexVars, crashed, op, runInfo, nreq,
                   invalCount, usedIdx>>

\* enc.Encode(spec): writes the whole document, or fails part-way
FileEncode(p) ==
    /\ ~crashed
    /\ UNCHANGED <<schemaVars, applied>>
    /\ pc[p] = "file_encode"
    /\ \/ /\ file' = [state |-> "full", spec |-> loc[p].ret]
          /\ UNCHANGED loc
       \/ /\ file' = [state |-> "partial", spec |-> loc[p].ret]
          /\ loc' = SetLoc(p, "err", TRUE)
    /\ pc' = [pc EXCEPT ![p] = "ret"]
    /\ UNCHANGED <<cacheVars, indexVars, crashed, op, runInfo, nreq,
                   invalCount, usedIdx>>

\* ------------------------------------------------------------------------
\* InvalidateCache
\* ------------------------------------------------------------------------

\* cacheMutex.Lock(); cacheValid = false
InvalidateCacheLock(p) ==
    /\ ~crashed
    /\ UNCHANGED <<schemaVars, applied>>
    /\ pc[p] = "inv_lock"
    /\ CanLock
    /\ cacheMutex' = [cacheMutex EXCEPT !.writer = p]
    /\ cacheValid' = FALSE
    /\ pc' = [pc EXCEPT ![p] = "inv_unlock"]
    /\ UNCHANGED <<specCache, indexVars, crashed, file, op, loc, runInfo,
                   nreq, invalCount, usedIdx>>

\* cacheMutex.Unlock(); w.WriteHeader(http.StatusOK): the call returns
InvalidateCacheUnlock(p) ==
    /\ ~crashed
    /\ UNCHANGED <<schemaVars, applied>>
    /\ pc[p] = "inv_unlock"
    /\ cacheMutex' = [cacheMutex EXCEPT !.writer = 0]
    /\ invalCount' = invalCount + 1
    /\ pc' = [pc EXCEPT ![p] = "ret"]
    /\ UNCHANGED <<specCache, cacheValid, indexVars, crashed, file, op, loc,
                   runInfo, nreq, usedIdx>>

\* ------------------------------------------------------------------------
\* GetTypeIndex
\* ------------------------------------------------------------------------

\* if typeIndex == nil { ... } else { return typeIndex }
GetTypeIndexCheck(p) ==
    /\ ~crashed
    /\ UNCHANGED <<schemaVars, applied>>
    /\ pc[p] = "gti_check"
    /\ \/ /\ typeIndex = 0
          /\ pc' = [pc EXCEPT ![p] = "gti_build"]
          /\ UNCHANGED <<loc, usedIdx>>
       \/ /\ typeIndex # 0
          /\ loc' = SetLoc(p, "idx", typeIndex)
          /\ usedIdx' = usedIdx \cup {typeIndex}
          /\ pc' = [pc EXCEPT ![p] = "ret"]
    /\ UNCHANGED <<cacheVars, indexVars, crashed, file, op, runInfo, nreq,
                   invalCount>>

\* typeIndex = BuildTypeIndex(); return typeIndex
GetTypeIndexBuild(p) ==
    /\ ~crashed
    /\ UNCHANGED <<schemaVars, applied>>
    /\ pc[p] = "gti_build"
    /\ builds' = builds + 1
    /\ typeIndex' = builds + 1
    /\ loc' = SetLoc(p, "idx", builds + 1)
    /\ usedIdx' = usedIdx \cup {builds + 1}
    /\ pc' = [pc EXCEPT ![p] = "ret"]
    /\ UNCHANGED <<cacheVars, typeIndexOnce, extTable, mapWriting, crashed,
                   file, op, runInfo, nreq, invalCount>>

\* ------------------------------------------------------------------------
\* AddExternalKnownType after ensureTypeIndex()
\* ------------------------------------------------------------------------

\* typeIndex.externalKnownTypes[name] = schema begins. The map write takes
\* no lock; started while another write of the same map is in progress it is
\* a data race, which may abort the process (fatal error: concurrent map
\* writes).
AddExternalWriteBegin(p) ==
    /\ ~crashed
    /\ UNCHANGED <<schemaVars, applied>>
    /\ pc[p] = "aekt_begin"
    /\ typeIndex # 0
    /\ \/ /\ mapWriting' = [mapWriting EXCEPT ![typeIndex] = @ \cup {p}]
          /\ loc' = SetLoc(p, "idx", typeIndex)
          /\ usedIdx' = usedIdx \cup {typeIndex}
          /\ pc' = [pc EXCEPT ![p] = "aekt_end"]
          /\ UNCHANGED crashed
       \/ /\ mapWriting[typeIndex] # {}
          /\ crashed' = TRUE
          /\ UNCHANGED <<mapWriting, loc, usedIdx, pc>>
    /\ UNCHANGED <<cacheVars, typeIndex, typeIndexOnce, builds, extTable,
                   file, op, runInfo, nreq, invalCount>>

\* the map write completes: the entry for name is the caller's schema
AddExternalWriteEnd(p) ==
    /\ ~crashed
    /\ UNCHANGED <<schemaVars, applied>>
    /\ pc[p] = "aekt_end"
    /\ extTable' = [extTable EXCEPT ![loc[p].idx][op[p].name] = "user"]
    /\ mapWriting' = [mapWriting EXCEPT ![loc[p].idx] = @ \ {p}]
    /\ pc' = [pc EXCEPT ![p] = "ret"]
    /\ UNCHANGED <<cacheVars, typeIndex, typeIndexOnce, builds, crashed, file,
                   op, loc, runInfo, nreq, invalCount, usedIdx>>

\* ------------------------------------------------------------------------
\* NewGenerator after ensureTypeIndex(): NewGeneratorWithCache(typeIndex)
\* ------------------------------------------------------------------------
NewGeneratorWithCache(p) ==
    /\ ~crashed
    /\ UNCHANGED <<schemaVars, applied>>
    /\ pc[p] = "newgen"
    /\ loc' = SetLoc(p, "idx", typeIndex)
    /\ usedIdx' = usedIdx \cup {typeIndex}
    /\ pc' = [pc EXCEPT ![p] = "ret"]
    /\ UNCHANGED <<cacheVars, indexVars, crashed, file, op, runInfo, nreq,
                   invalCount>>

\* The operation has returned to its caller; the goroutine is free again.
Return(p) ==
    /\ ~crashed
    /\ UNCHANGED <<schemaVars, applied>>
    /\ pc[p] = "ret"
    /\ pc' = [pc EXCEPT ![p] = "idle"]
    /\ op' = [op EXCEPT ![p] = IdleOp]
    /\ loc' = [loc EXCEPT ![p] = IdleLoc]
    /\ UNCHANGED <<cacheVars, indexVars, crashed, file, runInfo, nreq,
                   invalCount, usedIdx>>

\* Steps of ensureTypeIndex and fetchSpec, common to all callers.
FetchStep(p) ==
    \/ OnceDo(p) \/ OnceBuild(p) \/ OnceSetExternal(p)
    \/ GetCachedSpecRLock(p) \/ GetCachedSpecReturn(p)
    \/ FetchSpecMiss(p) \/ GenerateSpec(p)
    \/ SetCachedSpecLock(p) \/ SetCachedSpecAssign(p) \/ SetCachedSpecUnlock(p)
    \/ Return(p)

\* One step of goroutine p inside a request for the document or an
\* invalidation.
CacheStep(p) ==
    \/ FetchStep(p)
    \/ FileCreate(p) \/ FileEncode(p)
    \/ InvalidateCacheLock(p) \/ InvalidateCacheUnlock(p)

\* One step of goroutine p inside an operation on the type index.
IndexStep(p) ==
    \/ FetchStep(p)
    \/ GetTypeIndexCheck(p) \/ GetTypeIndexBuild(p)
    \/ AddExternalWriteBegin(p) \/ AddExternalWriteEnd(p)
    \/ NewGeneratorWithCache(p)

CacheNext ==
    \E p \in Procs :
        \/ CachedHandler(p) \/ GenerateOpenAPISpecFile(p) \/ InvalidateCache(p)
        \/ CacheStep(p)

IndexNext ==
    \E p \in Procs :
        \/ CachedHandler(p) \/ GetTypeIndex(p) \/ AddExternalKnownType(p)
        \/ NewGenerator(p)
        \/ IndexStep(p)

\* Concurrent requests for the document and invalidations of the cache.
SpecCache == Init /\ [][CacheNext]_vars

\* Concurrent users of the type index: GetTypeIndex, AddExternalKnownType,
\* NewGenerator and document requests (ensureTypeIndex, schema generation).
SpecIndex == Init /\ [][IndexNext]_vars

\* ------------------------------------------------------------------------
\* Part I: properties of the spec cache
\* ------------------------------------------------------------------------

\* Positions of a document request after fetchSpec has returned.
Fetched == {"ret", "file_create", "file_encode"}

IsFetch(p) == op[p].kind \in {"handler", "file"}

\* C3: a request served from the cache (cacheValid true and refresh false)
\* receives the complete output of one single GenerateSpec run: never the
\* zero-value Spec and never parts written by two different runs.
C3_CachedServeIsOneRun ==
    \A p \in Procs :
        loc[p].ok =>
            /\ Complete(loc[p].ret)
            /\ loc[p].ret.paths \in 1..Len(runInfo)

\* C3 witness: a request was served from the cache after two runs had
\* produced documents.
C3_Witness ==
    \E p \in Procs : loc[p].ok /\ pc[p] = "ret" /\ Len(runInfo) >= 2

\* C4: a refresh=false request that starts after InvalidateCache returned is
\* not answered with a document whose generation started before that
\* invalidation.
C4_NoStaleDocumentAfterInvalidate ==
    \A p \in Procs :
        (IsFetch(p) /\ ~op[p].refresh /\ pc[p] \in Fetched
                    /\ loc[p].ret.paths # 0)
            => runInfo[loc[p].ret.paths].epoch >= op[p].epoch

\* C5: a refresh=true request always runs GenerateSpec and returns the newly
\* generated document, never the cached one; when setCachedSpec has assigned,
\* the cache holds that document and is valid; a refresh=false request
\* regenerates only when it found the cache not valid.
C5_RefreshAlwaysRegenerates ==
    \A p \in Procs :
        IsFetch(p) =>
            /\ (op[p].refresh /\ pc[p] \in Fetched) =>
                   /\ ~loc[p].ok
                   /\ loc[p].run # 0
                   /\ loc[p].ret = SpecOfRun(loc[p].run)
            /\ pc[p] = "set_unlock" =>
                   specCache = loc[p].ret /\ cacheValid
            /\ (~op[p].refresh /\ loc[p].run # 0) => ~loc[p].sawValid

\* C5 witness: a refresh=true request found the cache valid and still
\* returned a document it generated itself.
C5_Witness ==
    \E p \in Procs :
        /\ IsFetch(p) /\ op[p].refresh /\ pc[p] = "ret"
        /\ loc[p].sawValid /\ loc[p].run # 0

\* C6: the document a handler made by CachedHandler returns was generated
\* from that handler's own router and config.
C6_HandlerServesOwnSpec ==
    \A p \in Procs :
        (op[p].kind = "handler" /\ pc[p] = "ret" /\ loc[p].ret.paths # 0)
            => runInfo[loc[p].ret.paths].h = op[p].h

\* The locking discipline of the cache: GenerateSpec is never run with
\* cacheMutex held, the write lock is held only around the final assignment
\* (or the invalidation), a read lock only inside getCachedSpec, and with
\* the mutex free the cache holds nothing or one complete document.
CacheLockDiscipline ==
    /\ \A p \in Procs :
           pc[p] \in {"fetch_miss", "generate", "set_lock"} =>
               cacheMutex.writer # p /\ p \notin cacheMutex.readers
    /\ cacheMutex.writer # 0 =>
           pc[cacheMutex.writer] \in {"set_assign", "set_unlock", "inv_unlock"}
    /\ \A p \in cacheMutex.readers : pc[p] = "get_read"
    /\ cacheMutex.writer = 0 =>
           \/ specCache = ZeroSpec /\ ~cacheValid
           \/ Complete(specCache) /\ specCache.paths \in 1..Len(runInfo)

\* Some goroutine inside a request can take its next step: no request is
\* stuck behind a lock that is never released.
NoRequestStuck ==
    (\E p \in Procs : pc[p] # "idle") =>
        (\E p \in Procs : pc[p] # "idle" /\ ENABLED CacheStep(p))

\* C9: the rebuild is done outside cacheMutex and only the final assignment
\* under it, every lock taken is released on every path, the cache ends up
\* holding one complete document, and no request is left waiting for ever
\* (each request is a finite sequence of steps, so it returns).
C9_RebuildOutsideLock == CacheLockDiscipline /\ NoRequestStuck

\* C9 witness: one request is rebuilding while another holds the write lock
\* for its final assignment.
C9_Witness ==
    \E p, q \in Procs :
        /\ p # q
        /\ pc[p] = "generate"
        /\ pc[q] = "set_unlock"
        /\ cacheMutex.writer = q

\* ------------------------------------------------------------------------
\* Part I: properties of the type index
\* ------------------------------------------------------------------------

\* C7: BuildTypeIndex runs at most once and every caller uses the same index
\* instance (the global index is never replaced by a second build).
C7_IndexBuiltOnce == builds <= 1 /\ Cardinality(usedIdx) <= 1

\* C8: no reader observes a partially written override entry and no
\* unsynchronised concurrent access to the override table happens (which
\* the Go runtime may answer by aborting the process).
C8_OverrideTableRaceFree ==
    /\ ~crashed
    /\ \A p \in Procs : loc[p].seen # "torn"
    /\ \A i \in Instances : Cardinality(mapWriting[i]) <= 1

\* ------------------------------------------------------------------------
\* Part I: properties of the exported file
\* ------------------------------------------------------------------------

\* C21: when GenerateOpenAPISpecFile returns an error, the file at filePath
\* is not partially written: it is absent or holds a complete document.
C21_FailedExportLeavesNoPartialFile ==
    \A p \in Procs :
        (pc[p] = "ret" /\ op[p].kind = "file" /\ loc[p].err)
            => file.state \in {"none", "full"}

\* C28: when GenerateOpenAPISpecFile returns an error, the call has left
\* specCache and cacheValid as they were: it has stored no document in the
\* cache (a call that regenerates stores its document and sets cacheValid;
\* loc.run is the run the call started, 0 when it was served from the
\* cache).
C28_FailedExportLeavesCache ==
    \A p \in Procs :
        (pc[p] = "ret" /\ op[p].kind = "file" /\ loc[p].err)
            => loc[p].run = 0

\* C29: AddExternalKnownType leaves specCache and cacheValid as they are,
\* and an override once registered stays in the override table of the
\* index: no later step removes it or puts another entry in its place.
C29_RegistrationKeepsCacheAndOverrides ==
    [][/\ \A p \in Procs :
            (op[p].kind = "addext" /\ pc'[p] # pc[p])
                => UNCHANGED <<specCache, cacheValid>>
       /\ \A n \in ExtNames :
            (typeIndex # 0 /\ extTable[typeIndex][n] = "user")
                => (typeIndex' # 0 /\ extTable'[typeIndex'][n] = "user")]_vars

\* ------------------------------------------------------------------------
\* Part II: the schema engine - pure functions
\* ------------------------------------------------------------------------

\* Largest number of top-level requests made to one SchemaGenerator.
MaxCalls == 2

\* Largest number of calls of the engine nested in one another.
MaxDepth == 10

IntegerNames == {"int", "int8", "int16", "int32", "int64",
                 "uint", "uint8", "uint16", "uint32", "uint64"}

NumberNames == {"float32", "float64"}

\* The names of the fixed table of primitive types.
PrimitiveNames == IntegerNames \cup NumberNames \cup {"bool", "string"}

\* Mutant of mapGoTypeToOpenAPI: the floating-point names are listed with
\* the integer names.
mapGoTypeToOpenAPIFloatAsInteger(typeName) ==
    IF typeName.pre # <<>> \/ typeName.pkg # "" THEN "object"
    ELSE CASE typeName.id \in IntegerNames \cup NumberNames -> "integer"
           [] typeName.id = "bool" -> "boolean"
           [] typeName.id = "string" -> "string"
           [] OTHER -> "object"

\* mapGoTypeToOpenAPI: the switch over the whole name.
mapGoTypeToOpenAPI(typeName) ==
    IF typeName.pre # <<>> \/ typeName.pkg # "" THEN "object"
    ELSE CASE typeName.id \in IntegerNames -> "integer"
           [] typeName.id \in NumberNames -> "number"
           [] typeName.id = "bool" -> "boolean"
           [] typeName.id = "string" -> "string"
           [] OTHER -> "object"

\* isBasicType: a name of the switch, or a name that starts with "[]", "*"
\* or "map[".
isBasicType(typeName) ==
    \/ typeName.pre = <<>> /\ typeName.pkg = "" /\ typeName.id \in PrimitiveNames
    \/ typeName.pre # <<>>

\* LookupQualifiedType: idx.qualifiedTypes[qualifiedName], the map indexFile
\* fills next to idx.types; <<>> is nil.
LookupQualifiedType(qualifiedName) ==
    IF /\ qualifiedName.pre = <<>>
       /\ qualifiedName.pkg \in Packages
       /\ qualifiedName.id \in DOMAIN types[qualifiedName.pkg]
    THEN <<types[qualifiedName.pkg][qualifiedName.id]>>
    ELSE <<>>

\* LookupUnqualifiedType: the qualified names the call can return.  It
\* returns the first package of "range idx.types" that declares the name,
\* and the order of a range over a Go map is not fixed: every declaring
\* package can be the first.  {} is the result (nil, "").
LookupUnqualifiedType(typeName) ==
    IF isBasicType(typeName) THEN {}
    ELSE {Qualified(pkgName, typeName.id) :
            pkgName \in {p \in Packages :
                           /\ typeName.pre = <<>>
                           /\ typeName.pkg = ""
                           /\ typeName.id \in DOMAIN types[p]}}

\* An undeclared bare name is given a package
GetQualifiedTypeNameDefaultPackage(typeName) ==
    IF ContainsDot(typeName) THEN {typeName}
    ELSE IF LookupUnqualifiedType(typeName) # {}
         THEN LookupUnqualifiedType(typeName)
         ELSE {[typeName EXCEPT !.pkg = "main"]}

\* GetQualifiedTypeName: the names the call can return.
GetQualifiedTypeName(typeName) ==
    IF ContainsDot(typeName) THEN {typeName}
    ELSE IF LookupUnqualifiedType(typeName) # {}
         THEN LookupUnqualifiedType(typeName)
         ELSE {typeName}

\* convertFieldType around its innermost expression: ast.StarExpr returns
\* the schema of t.X, ast.ArrayType wraps the schema of t.Elt in an array,
\* ast.MapType makes the schema of t.Value the additionalProperties.
RECURSIVE Wrap(_, _)
Wrap(w, inner) ==
    IF w = <<>> THEN inner
    ELSE CASE Head(w) = "*" -> Wrap(Tail(w), inner)
           [] Head(w) = "[]" -> ArraySchema(Wrap(Tail(w), inner))
           [] OTHER -> MapSchema(Wrap(Tail(w), inner))

\* convertFieldType, innermost expression: whether it calls GenerateSchema
\* (a custom identifier, or a selector pkg.id).
NeedsSchema(expr) ==
    \/ expr.k = "selector"
    \/ expr.k = "ident" /\ mapGoTypeToOpenAPI(Bare(expr.id)) = "object"

\* convertFieldType, innermost expression, when it makes no call: a basic
\* identifier, or the empty interface.
InlineSchema(expr) ==
    IF expr.k = "ident"
    THEN TypeSchema(mapGoTypeToOpenAPI(Bare(expr.id)))
    ELSE TypeSchema("object")

\* The names convertFieldType can pass to GenerateSchema for the innermost
\* expression.
FieldTypeNames(expr) ==
    IF expr.k = "selector" THEN {Qualified(expr.pkg, expr.id)}
    ELSE GetQualifiedTypeName(Bare(expr.id))

\* convertStructToSchema, "Ensure dependent schemas generated": whether the
\* switch over field.Type makes a second call of GenerateSchema.
EnsuresDependent(expr) ==
    \/ expr.w = <<>> /\ expr.k = "ident" /\ expr.obj
    \/ expr.w = <<"*">> /\ expr.k = "ident" /\ expr.obj
    \/ expr.w = <<>> /\ expr.k = "selector"

\* isPointerType
isPointerType(expr) == expr.w # <<>> /\ Head(expr.w) = "*"

\* strings.Contains(value, word) for the value of a tag key
Contains(words, word) == word \in words

\* The words of the openapi key's parts: the keys and the pieces of the values
OpenapiWords(tag) ==
    UNION {{tag.openapi[i][1]} \cup {tag.openapi[i][2][j] :
                                      j \in 1..Len(tag.openapi[i][2])} :
           i \in 1..Len(tag.openapi)}

\* hasOmitEmpty: strings.Contains(tag.Value, "omitempty") reads the text of
\* the whole tag, every key of it.
hasOmitEmpty(tag) ==
    /\ tag.present
    /\ \/ tag.omitempty
       \/ Contains(tag.validate, "omitempty")
       \/ Contains(tag.binding, "omitempty")
       \/ Contains(OpenapiWords(tag), "omitempty")

\* extractJSONTag, and the name convertStructToSchema gives the property.
JSONName(field) ==
    IF field.tag.present /\ field.tag.json # "" /\ field.tag.json # "-"
    THEN field.tag.json
    ELSE field.name

\* strconv.Atoi(value) succeeds
IsInt(value) == value \in {"0", "1", "3", "10"}

\* strconv.ParseFloat(value, 64) succeeds
IsFloat(value) == IsInt(value) \/ value \in {"0.5", "1.5"}

\* The text of a value (the inputs give one piece to every key but enum).
Text(value) == value[1]

\* applyEnhancedTags, the switch over the key of one key=value part
applyOpenapiPart(schema, key, value) ==
    CASE key = "format" -> [schema EXCEPT !.format = Text(value)]
      [] key = "pattern" -> [schema EXCEPT !.pattern = Text(value)]
      [] key = "example" -> [schema EXCEPT !.example = Text(value)]
      [] key = "title" -> [schema EXCEPT !.title = Text(value)]
      [] key = "deprecated" ->
            IF Text(value) = "true" THEN [schema EXCEPT !.deprecated = <<TRUE>>]
            ELSE schema
      [] key = "readOnly" ->
            IF Text(value) = "true" THEN [schema EXCEPT !.readOnly = <<TRUE>>]
            ELSE schema
      [] key = "writeOnly" ->
            IF Text(value) = "true" THEN [schema EXCEPT !.writeOnly = <<TRUE>>]
            ELSE schema
      [] key = "minimum" ->
            IF IsFloat(Text(value))
            THEN [schema EXCEPT !.minimum = <<Text(value)>>] ELSE schema
      [] key = "maximum" ->
            IF IsFloat(Text(value))
            THEN [schema EXCEPT !.maximum = <<Text(value)>>] ELSE schema
      [] key = "minLength" ->
            IF IsInt(Text(value))
            THEN [schema EXCEPT !.minLength = <<Text(value)>>] ELSE schema
      [] key = "maxLength" ->
            IF IsInt(Text(value))
            THEN [schema EXCEPT !.maxLength = <<Text(value)>>] ELSE schema
      [] key = "minItems" ->
            IF IsInt(Text(value))
            THEN [schema EXCEPT !.minItems = <<Text(value)>>] ELSE schema
      [] key = "maxItems" ->
            IF IsInt(Text(value))
            THEN [schema EXCEPT !.maxItems = <<Text(value)>>] ELSE schema
      [] key = "uniqueItems" ->
            IF Text(value) = "true" THEN [schema EXCEPT !.uniqueItems = <<TRUE>>]
            ELSE schema
      [] key = "enum" -> [schema EXCEPT !.enum = value]
      [] key = "default" -> [schema EXCEPT !.default = Text(value)]
      [] OTHER -> schema

\* applyEnhancedTags, the loop over the parts of the openapi tag
RECURSIVE applyOpenapiTag(_, _)
applyOpenapiTag(schema, parts) ==
    IF parts = <<>> THEN schema
    ELSE applyOpenapiTag(applyOpenapiPart(schema, Head(parts)[1], Head(parts)[2]),
                         Tail(parts))

\* One "if strings.Contains(tag, word) { schema.Format = format }"
SetFormatIf(schema, words, word, format) ==
    IF Contains(words, word) THEN [schema EXCEPT !.format = format] ELSE schema

\* applyEnhancedTags, the validate tag: email, uuid, uri, url in this order
applyValidateTag(schema, words) ==
    SetFormatIf(SetFormatIf(SetFormatIf(SetFormatIf(schema,
        words, "email", "email"), words, "uuid", "uuid"),
        words, "uri", "uri"), words, "url", "uri")

\* applyEnhancedTags, the binding tag: email, then uuid
applyBindingTag(schema, words) ==
    SetFormatIf(SetFormatIf(schema, words, "email", "email"),
                words, "uuid", "uuid")

\* The binding tag read before the validate tag
applyEnhancedTagsBindingFirst(schema, tag) ==
    applyValidateTag(SetFormatIf(SetFormatIf(applyOpenapiTag(schema, tag.openapi),
        tag.binding, "email", "email"), tag.binding, "uuid", "uuid"),
        tag.validate)

\* applyEnhancedTags (convertStructToSchema calls it only when field.Tag is
\* not nil; a key that the tag does not have has no parts and no words)
applyEnhancedTags(schema, tag) ==
    IF ~tag.present THEN schema
    ELSE applyBindingTag(applyValidateTag(applyOpenapiTag(schema, tag.openapi),
                                          tag.validate), tag.binding)

\* ------------------------------------------------------------------------
\* Part II: the schema engine - calls and their steps
\* ------------------------------------------------------------------------

\* One call on the stack: the function, its argument, where it stands, and
\* its locals (q the qualified name, i the index of the field at hand, acc
\* the schema being filled, fs the fieldSchema at hand).
Frame(fn, name, phase, q, i) ==
    [fn |-> fn, name |-> name, phase |-> phase, q |-> q, i |-> i,
     acc |-> ZeroSchema, fs |-> ZeroSchema]

GenerateSchemaFrame(typeName) ==
    Frame("GenerateSchema", typeName, "start", NoName, 0)

BasicFrame(typeName) ==
    Frame("generateBasicTypeSchema", typeName, "start", NoName, 0)

\* convertStructToSchema starts with schema := &Schema{Type: "object", ...}
\* and the first field.
StructFrame(q) ==
    [Frame("convertStructToSchema", q, "field", q, 1)
        EXCEPT !.acc = TypeSchema("object")]

\* Mutant of FieldTypeCall: convertFieldType converts a record type in
\* place, without going through GenerateSchema.
FieldTypeCallInPlace(qualified) ==
    IF LookupQualifiedType(qualified) # <<>>
    THEN StructFrame(qualified)
    ELSE GenerateSchemaFrame(qualified)

\* convertFieldType: return sg.GenerateSchema(qualified)
FieldTypeCall(qualified) == GenerateSchemaFrame(qualified)

\* The entry GenerateSchema makes for a type before it converts the type.
Placeholder == TypeSchema("object")

Top == stack[Len(stack)]

Running(fn, phase) ==
    /\ stack # <<>>
    /\ Top.fn = fn
    /\ Top.phase = phase

\* The types that the GenerateSchema calls around the call on top are
\* building.
Building == {stack[k].q : k \in {j \in 1..(Len(stack) - 1) :
                                   /\ stack[j].fn = "GenerateSchema"
                                   /\ stack[j].phase = "store"}}

\* The call on top goes on as frame f.
Continue(f) == stack' = [stack EXCEPT ![Len(stack)] = f]

\* The call on top goes on as frame f once the call g it makes returns.
Call(f, g) ==
    /\ Len(stack) < MaxDepth
    /\ stack' = Append([stack EXCEPT ![Len(stack)] = f], g)

\* The call on top returns v to its caller.
ReturnValue(v) ==
    /\ stack' = SubSeq(stack, 1, Len(stack) - 1)
    /\ retv' = [set |-> TRUE, val |-> v]

\* The record kept of a call that returns v, after resolving its argument
\* to q: depth counts the calls around it, reentrant says that one of them
\* is building q.
Record(q, v) ==
    returned' = returned \cup
        {[fn |-> Top.fn, name |-> Top.name, q |-> q, ret |-> v,
          depth |-> Len(stack) - 1, reentrant |-> q \in Building]}

\* The names a caller passes to GenerateSchema.
RequestNames ==
    {Bare(id) : id \in PrimitiveNames \cup
                       {"Loop", "Node", "Ping", "Pong", "User", "Simple"}}
    \cup {Qualified("model", "Node"), Qualified("model", "Loop"),
          Qualified("model", "User"), Qualified("store", "User"),
          Qualified("store", "Page"), Qualified("store", "Form"),
          Qualified("time", "Time"),
          Qualified("other", "Thing"),
          TypeName(<<"*">>, "time", "Time"),
          TypeName(<<"[]">>, "", "int"),
          TypeName(<<"[]">>, "", "Node"),
          TypeName(<<"*">>, "model", "Pong"),
          TypeName(<<"[]", "*", "[]">>, "", "string"),
          TypeName(<<"map[">>, "", "string")}

\* gen.GenerateSchema(typeName): a caller outside the engine asks for a
\* schema.
GenerateSchema ==
    \E typeName \in RequestNames :
        /\ stack = <<>>
        /\ ncalls < MaxCalls
        /\ ncalls' = ncalls + 1
        /\ stack' = <<GenerateSchemaFrame(typeName)>>
        /\ retv' = NoReturn
        /\ UNCHANGED <<schemas, returned, packageVars, applied>>

\* sg.generateBasicTypeSchema(typeName) called on its own, with a name
\* isBasicType accepts.
generateBasicTypeSchema ==
    \E typeName \in {n \in RequestNames : isBasicType(n)} :
        /\ stack = <<>>
        /\ ncalls < MaxCalls
        /\ ncalls' = ncalls + 1
        /\ stack' = <<BasicFrame(typeName)>>
        /\ retv' = NoReturn
        /\ UNCHANGED <<schemas, returned, packageVars, applied>>

\* GenerateSchema: the name has an entry in externalKnownTypes; that entry
\* is the result and nothing is stored.
GenerateSchemaExternal ==
    /\ Running("GenerateSchema", "start")
    /\ Top.name \in DOMAIN externalKnownTypes
    /\ ReturnValue(externalKnownTypes[Top.name])
    /\ Record(Top.name, externalKnownTypes[Top.name])
    /\ UNCHANGED <<schemas, ncalls, packageVars, applied>>

\* GenerateSchema: isBasicType(typeName), the result is that of
\* generateBasicTypeSchema(typeName).
GenerateSchemaBasic ==
    /\ Running("GenerateSchema", "start")
    /\ Top.name \notin DOMAIN externalKnownTypes
    /\ isBasicType(Top.name)
    /\ Call([Top EXCEPT !.phase = "basic"], BasicFrame(Top.name))
    /\ UNCHANGED <<schemas, retv, returned, ncalls, packageVars, applied>>

GenerateSchemaBasicReturn ==
    /\ Running("GenerateSchema", "basic")
    /\ ReturnValue(retv.val)
    /\ Record(Top.name, retv.val)
    /\ UNCHANGED <<schemas, ncalls, packageVars, applied>>

\* GenerateSchema: the qualified name is in sg.schemas already, as a
\* finished schema or as the entry of a type being built; the result is a
\* reference to it.
GenerateSchemaKnown ==
    /\ Running("GenerateSchema", "start")
    /\ Top.name \notin DOMAIN externalKnownTypes
    /\ ~isBasicType(Top.name)
    /\ \E qualified \in GetQualifiedTypeName(Top.name) :
        /\ qualified \in DOMAIN schemas
        /\ ReturnValue(RefSchema(qualified))
        /\ Record(qualified, RefSchema(qualified))
    /\ UNCHANGED <<schemas, ncalls, packageVars, applied>>

\* GenerateSchema: the index declares the qualified name as a record type;
\* the name is entered in sg.schemas, then convertStructToSchema runs.
GenerateSchemaStruct ==
    /\ Running("GenerateSchema", "start")
    /\ Top.name \notin DOMAIN externalKnownTypes
    /\ ~isBasicType(Top.name)
    /\ \E qualified \in GetQualifiedTypeName(Top.name) :
        /\ qualified \notin DOMAIN schemas
        /\ LookupQualifiedType(qualified) # <<>>
        /\ schemas' = SetProperty(schemas, qualified, Placeholder)
        /\ Call([Top EXCEPT !.phase = "store", !.q = qualified],
                StructFrame(qualified))
    /\ UNCHANGED <<retv, returned, ncalls, packageVars, applied>>

\* GenerateSchema: convertStructToSchema has returned; its schema replaces
\* the entry and the result is a reference to it.
GenerateSchemaStore ==
    /\ Running("GenerateSchema", "store")
    /\ schemas' = SetProperty(schemas, Top.q, retv.val)
    /\ ReturnValue(RefSchema(Top.q))
    /\ Record(Top.q, RefSchema(Top.q))
    /\ UNCHANGED <<ncalls, packageVars, applied>>

\* GenerateSchema: the index has no declaration for the name; an object
\* schema is stored under the name as it is and the result refers to it.
GenerateSchemaFallback ==
    /\ Running("GenerateSchema", "start")
    /\ Top.name \notin DOMAIN externalKnownTypes
    /\ ~isBasicType(Top.name)
    /\ \E qualified \in GetQualifiedTypeName(Top.name) :
        /\ qualified \notin DOMAIN schemas
        /\ LookupQualifiedType(qualified) = <<>>
        /\ schemas' = SetProperty(schemas, qualified, TypeSchema("object"))
        /\ ReturnValue(RefSchema(qualified))
        /\ Record(qualified, RefSchema(qualified))
    /\ UNCHANGED <<ncalls, packageVars, applied>>

\* generateBasicTypeSchema: "[]" + elem is an array of GenerateSchema(elem).
BasicArray ==
    /\ Running("generateBasicTypeSchema", "start")
    /\ HasPrefix(Top.name, "[]")
    /\ Call([Top EXCEPT !.phase = "items"],
            GenerateSchemaFrame(TrimPrefix(Top.name)))
    /\ UNCHANGED <<schemas, retv, returned, ncalls, packageVars, applied>>

BasicArrayReturn ==
    /\ Running("generateBasicTypeSchema", "items")
    /\ ReturnValue(ArraySchema(retv.val))
    /\ Record(Top.name, ArraySchema(retv.val))
    /\ UNCHANGED <<schemas, ncalls, packageVars, applied>>

\* generateBasicTypeSchema: "*" + clean is GenerateSchema(clean).
BasicPointer ==
    /\ Running("generateBasicTypeSchema", "start")
    /\ ~HasPrefix(Top.name, "[]")
    /\ HasPrefix(Top.name, "*")
    /\ Call([Top EXCEPT !.phase = "clean"],
            GenerateSchemaFrame(TrimPrefix(Top.name)))
    /\ UNCHANGED <<schemas, retv, returned, ncalls, packageVars, applied>>

BasicPointerReturn ==
    /\ Running("generateBasicTypeSchema", "clean")
    /\ ReturnValue(retv.val)
    /\ Record(Top.name, retv.val)
    /\ UNCHANGED <<schemas, ncalls, packageVars, applied>>

\* The schema generateBasicTypeSchema makes of the mapped type.
BasicSchema(openapiType) ==
    [ZeroSchema EXCEPT !.type = openapiType, !.description = "basic Go type"]

\* generateBasicTypeSchema: "Fallback to mapping".
BasicMapping ==
    /\ Running("generateBasicTypeSchema", "start")
    /\ ~HasPrefix(Top.name, "[]")
    /\ ~HasPrefix(Top.name, "*")
    /\ ReturnValue(BasicSchema(mapGoTypeToOpenAPI(Top.name)))
    /\ Record(Top.name, BasicSchema(mapGoTypeToOpenAPI(Top.name)))
    /\ UNCHANGED <<schemas, ncalls, packageVars, applied>>

\* The fields of the record type convertStructToSchema is converting.
FieldsOf(f) == LookupQualifiedType(f.q)[1].fields

\* convertStructToSchema: an embedded or an unexported field is skipped.
StructSkipField ==
    /\ Running("convertStructToSchema", "field")
    /\ Top.i <= Len(FieldsOf(Top))
    /\ LET field == FieldsOf(Top)[Top.i]
       IN  /\ field.name = "" \/ ~field.exported
           /\ Continue([Top EXCEPT !.i = @ + 1])
    /\ UNCHANGED <<schemas, retv, returned, ncalls, packageVars, applied>>

\* convertStructToSchema calls convertFieldType(field.Type), which makes no
\* call of GenerateSchema: the type is basic or an interface.
StructFieldInline ==
    /\ Running("convertStructToSchema", "field")
    /\ Top.i <= Len(FieldsOf(Top))
    /\ LET field == FieldsOf(Top)[Top.i]
       IN  /\ field.name # "" /\ field.exported
           /\ ~NeedsSchema(field.expr)
           /\ Continue([Top EXCEPT !.phase = "typed",
                          !.fs = Wrap(field.expr.w, InlineSchema(field.expr))])
    /\ UNCHANGED <<schemas, retv, returned, ncalls, packageVars, applied>>

\* convertStructToSchema calls convertFieldType(field.Type), which calls
\* GenerateSchema for a custom identifier or a selector.
StructFieldCall ==
    /\ Running("convertStructToSchema", "field")
    /\ Top.i <= Len(FieldsOf(Top))
    /\ LET field == FieldsOf(Top)[Top.i]
       IN  /\ field.name # "" /\ field.exported
           /\ NeedsSchema(field.expr)
           /\ \E qualified \in FieldTypeNames(field.expr) :
                Call([Top EXCEPT !.phase = "type"], FieldTypeCall(qualified))
    /\ UNCHANGED <<schemas, retv, returned, ncalls, packageVars, applied>>

\* convertFieldType returns: the schema GenerateSchema gave, inside the
\* arrays and maps of the field's type.
StructFieldCallReturn ==
    /\ Running("convertStructToSchema", "type")
    /\ LET field == FieldsOf(Top)[Top.i]
       IN  Continue([Top EXCEPT !.phase = "typed",
                       !.fs = Wrap(field.expr.w, retv.val)])
    /\ UNCHANGED <<schemas, retv, returned, ncalls, packageVars, applied>>

\* What convertStructToSchema does to its schema for one field, once the
\* dependent schemas are ensured: the property (set before them) and the
\* required list.
WithField(f, field) ==
    [f EXCEPT !.phase = "field",
              !.i = @ + 1,
              !.acc.properties =
                  SetProperty(@, JSONName(field), applyEnhancedTags(f.fs, field.tag)),
              !.acc.required =
                  IF ~isPointerType(field.expr) /\ ~hasOmitEmpty(field.tag)
                  THEN Append(@, JSONName(field))
                  ELSE @]

\* convertStructToSchema: the tags are applied, the property is set, no
\* dependent schema is asked for, the required list is extended.
StructFieldSet ==
    /\ Running("convertStructToSchema", "typed")
    /\ LET field == FieldsOf(Top)[Top.i]
       IN  /\ ~EnsuresDependent(field.expr)
           /\ Continue(WithField(Top, field))
    /\ UNCHANGED <<schemas, retv, returned, ncalls, packageVars, applied>>

\* convertStructToSchema: "Ensure dependent schemas generated", a second
\* call of GenerateSchema whose result is dropped.
StructFieldEnsure ==
    /\ Running("convertStructToSchema", "typed")
    /\ LET field == FieldsOf(Top)[Top.i]
       IN  /\ EnsuresDependent(field.expr)
           /\ \E qualified \in FieldTypeNames(field.expr) :
                Call([Top EXCEPT !.phase = "ensure"],
                     GenerateSchemaFrame(qualified))
    /\ UNCHANGED <<schemas, retv, returned, ncalls, packageVars, applied>>

StructFieldEnsureReturn ==
    /\ Running("convertStructToSchema", "ensure")
    /\ Continue(WithField(Top, FieldsOf(Top)[Top.i]))
    /\ UNCHANGED <<schemas, retv, returned, ncalls, packageVars, applied>>

\* convertStructToSchema: return schema
StructReturn ==
    /\ Running("convertStructToSchema", "field")
    /\ Top.i > Len(FieldsOf(Top))
    /\ ReturnValue(Top.acc)
    /\ UNCHANGED <<schemas, returned, ncalls, packageVars, applied>>

\* ------------------------------------------------------------------------
\* Part II: GenerateSpec over the schema table
\* ------------------------------------------------------------------------

\* addStandardSchemas: spec.Components.Schemas["ProblemDetails"] = Schema{...}
addStandardSchemas ==
    SetProperty(<<>>, Bare("ProblemDetails"),
        [TypeSchema("object") EXCEPT
            !.properties =
                [k \in {"type", "title", "status", "detail", "instance"} |->
                    [TypeSchema(IF k = "status" THEN "integer" ELSE "string")
                        EXCEPT !.description = k]],
            !.required = <<"type", "title", "status">>])

\* Mutant of SchemaKeys: a key without a "." that the index cannot resolve
\* is put under the generator's own package.
SchemaKeysOwnPackage(name) ==
    IF ~ContainsDot(name)
    THEN {IF qualified = name THEN Qualified("openapi", name.id) ELSE qualified :
            qualified \in GetQualifiedTypeName(name)}
    ELSE {name}

\* GenerateSpec, for name, schema := range g.schemaGen.GetSchemas(): the key
\* the schema gets in spec.Components.Schemas - the name itself when it
\* holds a ".", else what GetQualifiedTypeName makes of it.
SchemaKeys(name) ==
    IF ~ContainsDot(name) THEN GetQualifiedTypeName(name) ELSE {name}

\* GenerateSpec, the loop over g.schemaGen.GetSchemas() with
\* spec.Components.Schemas[qualifiedName] = schema: the maps it may leave
\* in components after the entries named of the table.  The loop ranges
\* over a Go map, so the entries come in any order.
RECURSIVE RangeSchemas(_, _, _)
RangeSchemas(components, table, names) ==
    IF names = {} THEN {components}
    ELSE UNION {UNION {RangeSchemas(
                           SetProperty(components, qualifiedName, table[name]),
                           table, names \ {name}) :
                         qualifiedName \in SchemaKeys(name)} :
                  name \in names}

\* GenerateSpec: the spec.Components.Schemas it may return for a schema
\* table - the standard schemas, then every table entry under its key.
ComponentsSchemas(table) ==
    RangeSchemas(addStandardSchemas, table, DOMAIN table)

\* The names the callers outside the engine have asked schemas for
TopLevelNames == {r.name : r \in {x \in returned : x.depth = 0}}

\* g.GenerateSpec returns its document, and the caller keeps the Generator
\* for another GenerateSpec call: the document has the components made of
\* g.schemaGen.schemas, and GenerateSpec leaves that table as it is (it is
\* made by NewGeneratorWithCache only).
GenerateSpecReturn ==
    /\ stack = <<>>
    /\ ncalls >= 1
    /\ ncalls < MaxCalls
    /\ \E components \in ComponentsSchemas(schemas) :
            Apply("GenerateSpecReturn", <<TopLevelNames>>, components)

\* One step of the schema engine.
SchemaNext ==
    \/ GenerateSchema \/ generateBasicTypeSchema
    \/ GenerateSchemaExternal \/ GenerateSchemaBasic \/ GenerateSchemaBasicReturn
    \/ GenerateSchemaKnown \/ GenerateSchemaStruct \/ GenerateSchemaStore
    \/ GenerateSchemaFallback
    \/ BasicArray \/ BasicArrayReturn \/ BasicPointer \/ BasicPointerReturn
    \/ BasicMapping
    \/ StructSkipField \/ StructFieldInline \/ StructFieldCall
    \/ StructFieldCallReturn \/ StructFieldSet \/ StructFieldEnsure
    \/ StructFieldEnsureReturn \/ StructReturn
    \/ GenerateSpecReturn

\* Requests made one after another to one SchemaGenerator over the built
\* index.
SpecSchema == Init /\ [][SchemaNext]_vars

\* A call that has started runs on until it returns.
FairSpecSchema == SpecSchema /\ WF_vars(SchemaNext)

\* ------------------------------------------------------------------------
\* Part II: properties of the schema engine
\* ------------------------------------------------------------------------

\* The qualified names of the types the index declares.
Declared ==
    UNION {{Qualified(p, id) : id \in DOMAIN types[p]} : p \in Packages}

\* The members of a declared type that become properties.
Members(q) ==
    {i \in 1..Len(types[q.pkg][q.id].fields) :
        /\ types[q.pkg][q.id].fields[i].name # ""
        /\ types[q.pkg][q.id].fields[i].exported}

\* The schemas a member whose type names another type may get: a reference
\* to a type of that name (or the override of that name) inside the arrays
\* and maps of the member's type, with the member's tags applied.
ReferenceSchemas(field) ==
    {applyEnhancedTags(
        Wrap(field.expr.w,
             IF t \in DOMAIN externalKnownTypes
             THEN externalKnownTypes[t] ELSE RefSchema(t)),
        field.tag) :
     t \in IF field.expr.k = "selector"
           THEN {Qualified(field.expr.pkg, field.expr.id)}
           ELSE {Qualified(p, field.expr.id) :
                   p \in {pp \in Packages : field.expr.id \in DOMAIN types[pp]}}}

\* A call of convertStructToSchema runs only for a type that has its entry
\* in the schema table already.
RegisteredBeforeMembers ==
    \A k \in 1..Len(stack) :
        stack[k].fn = "convertStructToSchema" => stack[k].q \in DOMAIN schemas

\* No type is being converted by two calls at once, and the calls nest less
\* deep than the model allows.
NoRecursionIntoSameType ==
    /\ \A j, k \in 1..Len(stack) :
        /\ j < k
        /\ stack[j].fn = "convertStructToSchema"
        /\ stack[k].fn = "convertStructToSchema"
        => stack[j].q # stack[k].q
    /\ Len(stack) < MaxDepth

\* A request for a type made while that type is being built gets a
\* reference to it.
ReentrantGetsRef ==
    \A r \in returned : r.reentrant => r.ret = RefSchema(r.q)

\* Once the calls have returned, a member of a declared type that names a
\* declared type is a reference in the table entry, never a copy.
EntriesHoldRefs ==
    stack = <<>> =>
        \A q \in Declared \cap DOMAIN schemas :
            \A i \in Members(q) :
                LET field == types[q.pkg][q.id].fields[i]
                IN  NeedsSchema(field.expr) =>
                        /\ JSONName(field) \in DOMAIN schemas[q].properties
                        /\ schemas[q].properties[JSONName(field)]
                               \in ReferenceSchemas(field)

\* C1: resolving a record type that has a member of its own type -
\* directly, through a pointer, through a slice or through a cycle of two
\* record types - terminates: the type's qualified name is in the schema
\* table before its members are resolved, no type is converted inside its
\* own conversion, the re-entrant request gets a $ref back, the finished
\* entry holds the $ref and not a copy, and every call that has started
\* returns.
C1_SelfReferenceTerminates ==
    /\ [](/\ RegisteredBeforeMembers
          /\ NoRecursionIntoSameType
          /\ ReentrantGetsRef
          /\ EntriesHoldRefs)
    /\ (stack # <<>>) ~> (stack = <<>>)

\* C1 (witness): four self-referential types are resolved, each entry
\* refers to its own type or to its partner in the cycle, and a re-entrant
\* request has returned.
C1_Witness ==
    /\ stack = <<>>
    /\ {Qualified("model", id) : id \in {"Loop", "Node", "Ping", "Pong"}}
           \subseteq DOMAIN schemas
    /\ schemas[Qualified("model", "Loop")].properties["Self"]
           = RefSchema(Qualified("model", "Loop"))
    /\ schemas[Qualified("model", "Node")].properties["next"]
           = RefSchema(Qualified("model", "Node"))
    /\ schemas[Qualified("model", "Node")].properties["kids"]
           = ArraySchema(RefSchema(Qualified("model", "Node")))
    /\ schemas[Qualified("model", "Ping")].properties["peer"]
           = RefSchema(Qualified("model", "Pong"))
    /\ schemas[Qualified("model", "Pong")].properties["back"]
           = RefSchema(Qualified("model", "Ping"))
    /\ \E r \in returned : r.reentrant /\ r.q = Qualified("model", "Pong")

\* The GenerateSchema requests made for the declared type T: by its
\* qualified name, by its bare name, or while T was being built.
RequestsFor(T) ==
    {r \in returned :
        /\ r.fn = "GenerateSchema"
        /\ \/ r.name = T
           \/ r.name = Bare(T.id)
           \/ r.reentrant /\ r.q = T}

\* C2: after any sequence of GenerateSchema requests for the same declared
\* type - by its bare name, by its qualified name, or re-entrantly - the
\* schema table holds one entry for the type, under its qualified name and
\* not under the bare name, and all those requests returned the same $ref.
C2_OneEntryOneRef ==
    \A T \in Declared :
        /\ Bare(T.id) \notin DOMAIN schemas
        /\ RequestsFor(T) # {} => T \in DOMAIN schemas
        /\ \A r1, r2 \in RequestsFor(T) : r1.ret = r2.ret

\* The fixed table of primitive type names.
PrimitiveTable(id) ==
    CASE id \in {"int", "int8", "int16", "int32", "int64"} -> "integer"
      [] id \in {"uint", "uint8", "uint16", "uint32", "uint64"} -> "integer"
      [] id \in {"float32", "float64"} -> "number"
      [] id = "bool" -> "boolean"
      [] id = "string" -> "string"

IsPrimitiveName(n) == n.pre = <<>> /\ n.pkg = "" /\ n.id \in PrimitiveNames

\* The members of a declared type that are declared with a primitive name
\* and carry no tag that changes their schema.
PrimitiveMembers(q) ==
    {i \in Members(q) :
        LET field == types[q.pkg][q.id].fields[i]
        IN  /\ field.expr.w = <<>>
            /\ field.expr.k = "ident"
            /\ field.expr.id \in PrimitiveNames
            /\ applyEnhancedTags(ZeroSchema, field.tag) = ZeroSchema}

\* Every name outside the table is mapped to "object": it is not classified
\* as a primitive.
OnlyTableNamesArePrimitive ==
    \A n \in RequestNames : ~IsPrimitiveName(n) => mapGoTypeToOpenAPI(n) = "object"

\* C10 (as claimed): for every primitive type name of the fixed table the
\* schema returned for that name has exactly the table's type and no other
\* field set, and every name outside the table is not classified as a
\* primitive.
C10_PrimitiveSchemaTypeOnly ==
    /\ \A r \in returned :
        r.fn = "generateBasicTypeSchema" /\ IsPrimitiveName(r.name)
            => r.ret = TypeSchema(PrimitiveTable(r.name.id))
    /\ OnlyTableNamesArePrimitive

\* C10 (amended): for every primitive type name of the fixed table the
\* schema generateBasicTypeSchema returns has exactly the table's type and
\* the description "basic Go type", the schema convertFieldType gives a
\* member declared with that name has exactly the table's type and no other
\* field set, and every name outside the table is mapped to "object".
C10_PrimitiveSchemaByPath ==
    /\ \A r \in returned :
        r.fn = "generateBasicTypeSchema" /\ IsPrimitiveName(r.name)
            => r.ret = [ZeroSchema EXCEPT
                          !.type = PrimitiveTable(r.name.id),
                          !.description = "basic Go type"]
    /\ stack = <<>> =>
        \A q \in Declared \cap DOMAIN schemas :
            \A i \in PrimitiveMembers(q) :
                LET field == types[q.pkg][q.id].fields[i]
                IN  schemas[q].properties[JSONName(field)]
                        = TypeSchema(PrimitiveTable(field.expr.id))
    /\ OnlyTableNamesArePrimitive

\* C10 (witness): generateBasicTypeSchema has returned for the name
\* "float32" and a record type with a member declared int is in the table.
C10_Witness ==
    /\ stack = <<>>
    /\ \E r \in returned :
        r.fn = "generateBasicTypeSchema" /\ r.name = Bare("float32")
    /\ Qualified("model", "Node") \in DOMAIN schemas
    /\ "val" \in DOMAIN schemas[Qualified("model", "Node")].properties

\* The name "*" + n and the name "[]" + n.
PointerTo(n) == [n EXCEPT !.pre = <<"*">> \o @]

SliceOf(n) == [n EXCEPT !.pre = <<"[]">> \o @]

\* The results of the GenerateSchema calls made with the name n.
SchemasFor(n) ==
    {r.ret : r \in {x \in returned : x.fn = "GenerateSchema" /\ x.name = n}}

\* C11: pointers are transparent and composites compose: for every type
\* name T the schema for "*T" equals the schema for "T" and the schema for
\* "[]T" is the array of the schema for "T", at any nesting depth, also
\* when T has an entry in the known-external override table.
C11_PointersTransparent ==
    \A r \in returned :
        r.fn = "GenerateSchema" =>
            /\ \A s \in SchemasFor(PointerTo(r.name)) : s = r.ret
            /\ \A s \in SchemasFor(SliceOf(r.name)) : s = ArraySchema(r.ret)

\* The members of a declared type whose declared type is a map.
MapMembers(q) ==
    {i \in Members(q) :
        LET field == types[q.pkg][q.id].fields[i]
        IN  /\ field.expr.w # <<>>
            /\ Head(field.expr.w) = "map["
            /\ ~NeedsSchema(field.expr)}

\* C12: a type name of the form map[K]V resolves to an object schema whose
\* additionalProperties is the schema of V, both when the name is given as
\* a string to the engine and when it is a struct member's declared type.
C12_MapIsObjectOfValues ==
    /\ \A r \in returned :
        HasPrefix(r.name, "map[") =>
            /\ r.ret.type = "object"
            /\ Len(r.ret.additionalProperties) = 1
            /\ \A v \in returned :
                v.fn = r.fn /\ v.name = TrimPrefix(r.name)
                    => r.ret.additionalProperties = <<v.ret>>
    /\ stack = <<>> =>
        \A q \in Declared \cap DOMAIN schemas :
            \A i \in MapMembers(q) :
                LET field == types[q.pkg][q.id].fields[i]
                IN  schemas[q].properties[JSONName(field)]
                        = MapSchema(Wrap(Tail(field.expr.w),
                                         InlineSchema(field.expr)))

\* The serialization names of the members of a declared type that are not
\* declared as a pointer and whose json key has no option omitempty, in the
\* order of their declaration.
RequiredByJSON(q) ==
    LET fields == types[q.pkg][q.id].fields
        Listed(field) ==
            /\ field.name # "" /\ field.exported
            /\ ~isPointerType(field.expr)
            /\ ~(field.tag.present /\ field.tag.omitempty)
        listed == SelectSeq(fields, Listed)
    IN  [i \in 1..Len(listed) |-> JSONName(listed[i])]

\* C13: in the object schema of a declared record type the required list
\* holds, in declaration order, exactly the serialization names of the
\* members whose declared type is not a pointer and whose json metadata has
\* no omit-if-empty marker.
C13_RequiredIffDirectAndNoOmit ==
    stack = <<>> =>
        \A q \in Declared \cap DOMAIN schemas :
            schemas[q].required = RequiredByJSON(q)

\* The serialization names of the named, exported members of a declared
\* type: for every name an entry of the field list declares, the json name
\* of the entry when it has one that is not "-", else the declared name.
SerializationNames(q) ==
    LET fields == types[q.pkg][q.id].fields
        NamesOf(field) ==
            IF field.name = "" \/ ~field.exported THEN {}
            ELSE {JSONName(field)} \cup {field.rest[i] : i \in DOMAIN field.rest}
    IN  UNION {NamesOf(fields[i]) : i \in DOMAIN fields}

\* C23: the property keys of the schema convertStructToSchema builds for a
\* declared record type are exactly the serialization names of its named,
\* exported members (an embedded or unexported member gives no property and
\* no required entry, a json name replaces the declared name, a member
\* tagged json "-" is kept under its declared name).
C23_PropertiesAreMemberNames ==
    stack = <<>> =>
        \A q \in Declared \cap DOMAIN schemas :
            /\ DOMAIN schemas[q].properties = SerializationNames(q)
            /\ \A i \in DOMAIN schemas[q].required :
                schemas[q].required[i] \in SerializationNames(q)

\* The types the requests for the names reach: the types the names can
\* resolve to, and the types their exported members name, and so on.
RECURSIVE Reach(_)
Reach(names) ==
    LET MemberTypes(q) ==
            IF LookupQualifiedType(q) = <<>> THEN {}
            ELSE UNION {FieldTypeNames(types[q.pkg][q.id].fields[i].expr) :
                          i \in {j \in Members(q) :
                                    NeedsSchema(types[q.pkg][q.id].fields[j].expr)}}
        more == names \cup UNION {MemberTypes(q) : q \in names}
    IN  IF more = names THEN names ELSE Reach(more)

\* The types the requests for the names start from
Resolved(names) ==
    UNION {GetQualifiedTypeName([n EXCEPT !.pre = <<>>]) :
             n \in {m \in names : m.pkg # "" \/ m.id \notin PrimitiveNames}}

\* C30: when GenerateSpec is called again on the same Generator, the
\* components.schemas of the second document hold only ProblemDetails and
\* the types reachable from the second call's operations: no entry is left
\* over from the first call.
C30_TableBelongsToOneRun ==
    (applied.fn = "GenerateSpecReturn" /\ stack = <<>>) =>
        LET later == TopLevelNames \ applied.args[1]
        IN  later # {} =>
                \A components \in ComponentsSchemas(schemas) :
                    DOMAIN components \subseteq
                        {Bare("ProblemDetails")} \cup Reach(Resolved(later))

\* ------------------------------------------------------------------------
\* Part III: functions called on inputs of their own
\* ------------------------------------------------------------------------

\* One key=value part of an openapi tag
Part(key, value) == <<key, <<value>>>>

\* The openapi keys of the tags applied: none, one format, a format with
\* another key, several formats, keys with values that convert, keys with
\* values that do not convert, an empty format.
OpenapiInputs ==
    {<<>>,
     <<Part("format", "date")>>,
     <<Part("format", "email"), Part("title", "T")>>,
     <<Part("pattern", "^a$"), Part("format", "uuid"), Part("format", "byte")>>,
     <<Part("minLength", "3"), Part("deprecated", "true"),
       <<"enum", <<"a", "b">>>>, Part("maximum", "1.5")>>,
     <<Part("minLength", "x"), Part("deprecated", "yes"), Part("title", "U"),
       Part("title", "V")>>,
     <<Part("format", "")>>}

\* The words a validate key and a binding key are made of
ValidateWords == {"required", "email", "uuid", "uri", "url"}
BindingWords == {"required", "email", "uuid"}

\* The tags applied
TagInputs ==
    {Tag("f", FALSE, o, v, b) :
        o \in OpenapiInputs, v \in SUBSET ValidateWords, b \in SUBSET BindingWords}

\* The schemas the tags are applied to: convertFieldType's result for a
\* string, and one that has a format already.
TagSchemas ==
    {TypeSchema("string"), [TypeSchema("string") EXCEPT !.format = "date-time"]}

\* sg.applyEnhancedTags(schema, tag)
ApplyEnhancedTagsCall(schema, tag) ==
    Apply("applyEnhancedTags", <<schema, tag>>, applyEnhancedTags(schema, tag))

\* The value of the last part of an openapi tag that has the given key:
\* <<>> if no part has it, else <<value>>.
RECURSIVE LastValue(_, _)
LastValue(parts, key) ==
    IF parts = <<>> THEN <<>>
    ELSE IF parts[Len(parts)][1] = key THEN <<parts[Len(parts)][2]>>
    ELSE LastValue(SubSeq(parts, 1, Len(parts) - 1), key)

\* The format a binding tag names: uuid over email
BindingFormat(words) ==
    IF "uuid" \in words THEN <<"uuid">>
    ELSE IF "email" \in words THEN <<"email">> ELSE <<>>

\* The format a validate tag names: uri or url over uuid over email
ValidateFormat(words) ==
    IF "uri" \in words \/ "url" \in words THEN <<"uri">>
    ELSE IF "uuid" \in words THEN <<"uuid">>
    ELSE IF "email" \in words THEN <<"email">> ELSE <<>>

\* The fields of a schema that only the openapi tag sets, and those that no
\* tag sets.
OpenapiOnlyFields ==
    {"pattern", "example", "title", "default", "deprecated", "readOnly",
     "writeOnly", "uniqueItems", "minimum", "maximum", "minLength",
     "maxLength", "minItems", "maxItems", "enum"}
UntaggedFields ==
    {"type", "ref", "description", "items", "additionalProperties",
     "properties", "required", "oneOf"}

\* C14: the format applyEnhancedTags leaves is the binding tag's (uuid over
\* email) if it names one, else the validate tag's (uri/url over uuid over
\* email) if it names one, else the value of the openapi tag's last format
\* part, else the format the schema had; the later channels leave the fields
\* the openapi tag sets as the openapi tag set them, and the other fields
\* are not touched.
C14_ChannelsInOrderLastWins ==
    applied.fn = "applyEnhancedTags" =>
        LET schema == applied.args[1]
            tag == applied.args[2]
            out == applied.out
            byOpenapi == applyOpenapiTag(schema, tag.openapi)
        IN  /\ out.format =
                IF BindingFormat(tag.binding) # <<>>
                THEN BindingFormat(tag.binding)[1]
                ELSE IF ValidateFormat(tag.validate) # <<>>
                THEN ValidateFormat(tag.validate)[1]
                ELSE IF LastValue(tag.openapi, "format") # <<>>
                THEN LastValue(tag.openapi, "format")[1][1]
                ELSE schema.format
            /\ \A f \in OpenapiOnlyFields : out[f] = byOpenapi[f]
            /\ \A f \in UntaggedFields : out[f] = schema[f]
            /\ LastValue(tag.openapi, "title") # <<>> =>
                    out.title = LastValue(tag.openapi, "title")[1][1]
            /\ LastValue(tag.openapi, "title") = <<>> => out.title = schema.title

\* C14 (witness): a tag whose three channels name three different formats
\* has been applied to a schema that had a format.
C14_Witness ==
    /\ applied.fn = "applyEnhancedTags"
    /\ applied.args[1].format = "date-time"
    /\ LastValue(applied.args[2].openapi, "format") = <<<<"byte">>>>
    /\ applied.args[2].validate = {"required", "uuid"}
    /\ applied.args[2].binding = {"email"}
    /\ applied.out.format = "email"

\* ------------------------------------------------------------------------
\* Part III: handleEnumType
\* ------------------------------------------------------------------------

\* An *ast.BasicLit or another expression as a constant's value: kind is
\* "STRING", "INT" or "expr"; Value is quote + body + quote, where quote is
\* the character named: the double quote of an interpreted string literal,
\* the back quote of a raw one, nothing for the other kinds.
Lit(kind, quote, body) == [kind |-> kind, quote |-> quote, body |-> body]
StringLit(body) == Lit("STRING", "DOUBLEQUOTE", body)
RawLit(body) == Lit("STRING", "BACKQUOTE", body)

\* One *ast.ValueSpec of a const declaration; type is "" for vs.Type == nil
ValueSpec(names, type, values) ==
    [names |-> names, type |-> type, values |-> values]

\* One *ast.TypeSpec by its ts.Type: the identifier's name, or "struct"
TypeSpec(name, type) == [name |-> name, type |-> type]

\* One parsed *ast.File: file.Name.Name, and the specs of its type and
\* const declarations in the order of file.Decls.
File(pkg, typeSpecs, valueSpecs) ==
    [pkg |-> pkg, types |-> typeSpecs, consts |-> valueSpecs]

\* typeIndex.files (file path -> parsed file) of the index the enum
\* detector is called on.
files ==
    [path \in {"order/mode.go", "order/status.go", "user/a.go", "user/b.go"} |->
        CASE path = "order/status.go" ->
               File("order",
                    <<TypeSpec("Status", "string"), TypeSpec("Kind", "string"),
                      TypeSpec("Level", "int"), TypeSpec("Order", "struct")>>,
                    <<ValueSpec(<<"Pending">>, "Status", <<StringLit("pending")>>),
                      ValueSpec(<<"Limit">>, "int", <<Lit("INT", "", "3")>>),
                      ValueSpec(<<"Plain">>, "", <<StringLit("plain")>>),
                      ValueSpec(<<"Sent", "Done">>, "Status",
                                <<StringLit("sent"), StringLit("done")>>),
                      ValueSpec(<<"Joined">>, "Status", <<Lit("expr", "", "a+b")>>),
                      ValueSpec(<<"Low">>, "Level", <<Lit("INT", "", "1")>>)>>)
          [] path = "order/mode.go" ->
               File("order",
                    <<TypeSpec("Mode", "string")>>,
                    <<ValueSpec(<<"ModeRaw">>, "Mode", <<RawLit("raw")>>)>>)
          [] path = "user/a.go" ->
               File("user",
                    <<TypeSpec("Role", "string"), TypeSpec("Status", "string")>>,
                    <<ValueSpec(<<"Admin">>, "Role", <<StringLit("admin")>>),
                      ValueSpec(<<"Active">>, "Status", <<StringLit("active")>>)>>)
          [] OTHER ->
               File("user", <<>>,
                    <<ValueSpec(<<"Guest">>, "Role", <<StringLit("guest")>>)>>)]

\* The file paths in the order filepath.Walk visits them (lexical)
WalkOrder == <<"order/mode.go", "order/status.go", "user/a.go", "user/b.go">>

\* The orders in which "range sg.typeIndex.files" can yield the files: the
\* order of a range over a Go map is not fixed.
RangeOrders ==
    {o \in [1..Len(WalkOrder) -> DOMAIN files] :
        \A i, j \in 1..Len(WalkOrder) : i # j => o[i] # o[j]}

\* typeIndex.qualifiedTypes for these files: qualified name -> ts.Type
qualifiedTypes ==
    [q \in UNION {{Qualified(files[path].pkg, files[path].types[i].name) :
                     i \in 1..Len(files[path].types)} : path \in DOMAIN files} |->
        LET path == CHOOSE pp \in DOMAIN files :
                        /\ files[pp].pkg = q.pkg
                        /\ \E i \in 1..Len(files[pp].types) :
                                files[pp].types[i].name = q.id
            i == CHOOSE ii \in 1..Len(files[path].types) :
                        files[path].types[ii].name = q.id
        IN  files[path].types[i].type]

\* isConstantOfType
isConstantOfType(vs, typeName) == vs.type # "" /\ vs.type = typeName

\* strings.Trim(lit.Value, double quote): the double quotes at both ends
\* are cut off.  A text is the sequence of its pieces.
TrimQuotes(lit) ==
    IF lit.quote = "DOUBLEQUOTE" THEN <<lit.body>>
    ELSE <<lit.quote, lit.body, lit.quote>>

\* The concatenation of a sequence of sequences
RECURSIVE Flatten(_)
Flatten(seqs) == IF seqs = <<>> THEN <<>> ELSE Head(seqs) \o Flatten(Tail(seqs))

\* extractEnumValues, the loop over vs.Names of one ValueSpec
ValuesOfSpec(vs) ==
    Flatten([i \in 1..Len(vs.names) |->
                IF i <= Len(vs.values) /\ vs.values[i].kind = "STRING"
                THEN <<TrimQuotes(vs.values[i])>> ELSE <<>>])

\* extractEnumValues, one file of the range
ValuesOfFile(f, packageName, typeName) ==
    IF f.pkg # packageName THEN <<>>
    ELSE Flatten([i \in 1..Len(f.consts) |->
                    IF isConstantOfType(f.consts[i], typeName)
                    THEN ValuesOfSpec(f.consts[i]) ELSE <<>>])

\* extractEnumValues when the range yields the files in the given order
extractEnumValues(order, packageName, typeName) ==
    Flatten([i \in 1..Len(order) |->
                ValuesOfFile(files[order[i]], packageName, typeName)])

\* &Schema{Type: "string", Enum: enumValues, Description: "Enum type " + name}
EnumSchema(qualifiedName, enumValues) ==
    [ZeroSchema EXCEPT !.type = "string", !.enum = enumValues,
                       !.description = <<"Enum type ", qualifiedName>>]

\* handleEnumType when the range yields the files in the given order; <<>> is
\* nil.  strings.Split(qualifiedName, ".") has two parts for a name pkg.T.
handleEnumTypeIn(order, qualifiedName) ==
    IF qualifiedName \notin DOMAIN qualifiedTypes THEN <<>>
    ELSE IF qualifiedTypes[qualifiedName] # "string" THEN <<>>
    ELSE IF qualifiedName.pre # <<>> \/ qualifiedName.pkg = "" THEN <<>>
    ELSE IF extractEnumValues(order, qualifiedName.pkg, qualifiedName.id) = <<>>
         THEN <<>>
    ELSE <<EnumSchema(qualifiedName,
               extractEnumValues(order, qualifiedName.pkg, qualifiedName.id))>>

\* handleEnumType: the results the call can have
handleEnumType(qualifiedName) ==
    {handleEnumTypeIn(order, qualifiedName) : order \in RangeOrders}

\* The names handleEnumType is called with
EnumRequests ==
    {Qualified("order", "Status"), Qualified("order", "Kind"),
     Qualified("order", "Level"), Qualified("order", "Order"),
     Qualified("order", "Mode"), Qualified("user", "Role"),
     Qualified("user", "Status"), Qualified("nonexistent", "Type"),
     Bare("Status"), TypeName(<<"*">>, "order", "Status")}

\* sg.handleEnumType(qualifiedName)
HandleEnumTypeCall(qualifiedName) ==
    \E out \in handleEnumType(qualifiedName) :
        Apply("handleEnumType", <<qualifiedName>>, out)

\* The values of the string literals of the constants of package pkg that
\* are declared with the type T, in declaration order (file after file as
\* the walk visits them, and top to bottom in a file).
DeclaredValues(q) ==
    LET LiteralValues(vs) ==
            Flatten([i \in 1..Len(vs.names) |->
                        IF i <= Len(vs.values) /\ vs.values[i].kind = "STRING"
                        THEN <<<<vs.values[i].body>>>> ELSE <<>>])
        OfFile(f) ==
            IF f.pkg # q.pkg THEN <<>>
            ELSE Flatten([i \in 1..Len(f.consts) |->
                            IF f.consts[i].type = q.id
                            THEN LiteralValues(f.consts[i]) ELSE <<>>])
    IN  Flatten([i \in 1..Len(WalkOrder) |-> OfFile(files[WalkOrder[i]])])

\* C15: handleEnumType(pkg.T) returns the schema {type string, description
\* "Enum type pkg.T", enum: the literal values of the constants of pkg that
\* are declared with type T, in declaration order} if the index defines
\* pkg.T as string and there is such a constant, and nothing otherwise.
C15_EnumIffStringAliasWithConstants ==
    applied.fn = "handleEnumType" =>
        LET q == applied.args[1]
        IN  applied.out =
                IF /\ q \in DOMAIN qualifiedTypes
                   /\ qualifiedTypes[q] = "string"
                   /\ DeclaredValues(q) # <<>>
                THEN <<EnumSchema(q, DeclaredValues(q))>>
                ELSE <<>>

\* ------------------------------------------------------------------------
\* Part III: GetQualifiedTypeName
\* ------------------------------------------------------------------------

\* idx.GetQualifiedTypeName(idx.GetQualifiedTypeName(typeName)): the result
\* of the first call and the result of the second.
GetQualifiedTypeNameCall(typeName) ==
    \E first \in GetQualifiedTypeName(typeName) :
        \E second \in GetQualifiedTypeName(first) :
            Apply("GetQualifiedTypeName", <<typeName>>, <<first, second>>)

\* The packages that declare a bare name
DeclaringPackages(x) ==
    {p \in Packages : x.pre = <<>> /\ x.pkg = "" /\ x.id \in DOMAIN types[p]}

\* C16: qualifying the result of a qualification returns it again; a name
\* with the separator is returned as it is, a bare name that some package p
\* declares is returned as p.x, and every other name (declared nowhere,
\* primitive, composite) is returned as it is.
C16_QualificationIdempotent ==
    applied.fn = "GetQualifiedTypeName" =>
        LET x == applied.args[1]
            first == applied.out[1]
            second == applied.out[2]
        IN  /\ second = first
            /\ ContainsDot(x) => first = x
            /\ ~ContainsDot(x) /\ DeclaringPackages(x) # {} =>
                    \E p \in DeclaringPackages(x) : first = Qualified(p, x.id)
            /\ ~ContainsDot(x) /\ DeclaringPackages(x) = {} => first = x

\* C16 (witness): a bare name that two packages declare has been qualified
\* twice.
C16_Witness ==
    /\ applied.fn = "GetQualifiedTypeName"
    /\ applied.args[1] = Bare("User")
    /\ applied.out = <<Qualified("store", "User"), Qualified("store", "User")>>

\* ------------------------------------------------------------------------
\* Part III: two runs over one index
\* ------------------------------------------------------------------------

\* Two runs call idx.GetQualifiedTypeName(typeName) on the same index: the
\* result of the one and the result of the other.
GetQualifiedTypeNameRuns(typeName) ==
    \E one \in GetQualifiedTypeName(typeName) :
        \E other \in GetQualifiedTypeName(typeName) :
            Apply("GetQualifiedTypeName, two runs", <<typeName>>, <<one, other>>)

\* C17: two runs that resolve the same type name over the same index get
\* the same qualified name, hence the same $ref, also for a bare name that
\* two packages declare.
C17_ResolutionDeterministic ==
    applied.fn = "GetQualifiedTypeName, two runs" =>
        /\ applied.out[1] = applied.out[2]
        /\ RefSchema(applied.out[1]) = RefSchema(applied.out[2])

\* ------------------------------------------------------------------------
\* Part III: buildOperation (parameters and responses)
\* ------------------------------------------------------------------------

\* A route pattern is the sequence of its parts between "/"
\* (strings.Split(route, "/")); a part is the sequence of its tokens: "{",
\* "}", and texts that hold neither.  "/items/{id}" has an empty first part.
RouteInputs ==
    {<<<<>>, <<"health">>>>,
     <<<<>>, <<"items">>, <<"{", "id", "}">>>>,
     <<<<>>, <<"users">>, <<"{", "userID", "}">>, <<"posts">>,
       <<"{", "postID", "}">>>>,
     <<<<>>, <<"{", "month", "}", "-", "{", "day", "}", "-", "{", "year", "}">>>>,
     <<<<>>, <<"v", "{", "version", "}">>, <<"items">>>>,
     <<<<>>, <<"files">>, <<"{", "name", "}", ".json">>>>}

\* strings.Trim(part, "{}"): the braces at both ends are cut off
RECURSIVE TrimBraces(_)
TrimBraces(part) ==
    IF part = <<>> THEN part
    ELSE IF Head(part) \in {"{", "}"} THEN TrimBraces(Tail(part))
    ELSE IF part[Len(part)] \in {"{", "}"}
         THEN TrimBraces(SubSeq(part, 1, Len(part) - 1))
    ELSE part

\* Parameter{Name: paramName, In: "path", Required: true, Schema: string}
PathParameter(paramName) ==
    [name |-> paramName, in |-> "path", description |-> "", required |-> TRUE,
     schema |-> TypeSchema("string")]

\* extractPathParameters
extractPathParameters(route) ==
    Flatten([i \in 1..Len(route) |->
                IF /\ route[i] # <<>>
                   /\ Head(route[i]) = "{"
                   /\ route[i][Len(route[i])] = "}"
                THEN <<PathParameter(TrimBraces(route[i]))>>
                ELSE <<>>])

\* strconv.Itoa for the status codes in use
Itoa(statusCode) ==
    CASE statusCode = 200 -> "200" [] statusCode = 201 -> "201"
      [] statusCode = 400 -> "400" [] statusCode = 401 -> "401"
      [] statusCode = 404 -> "404" [] statusCode = 500 -> "500"

\* Response{Description, Content: {mediaType: {Schema: schema}}}
Response(description, mediaType, schema) ==
    [description |-> description, mediaType |-> mediaType, schema |-> schema]

\* &Schema{Ref: "#/components/schemas/ProblemDetails"}
ProblemDetails == RefSchema(Bare("ProblemDetails"))

\* buildResponses: the map standardErrors
standardErrors ==
    [code \in {"400", "401", "500"} |->
        Response(CASE code = "400" -> "Bad Request"
                   [] code = "401" -> "Unauthorized"
                   [] OTHER -> "Internal Server Error",
                 "application/problem+json", ProblemDetails)]

\* An annotation: Success is <<>> (nil) or one [statusCode, description]
\* whose DataType is "", Failures are [statusCode, description] in their
\* order, Parameters are [name, in, description, required, type].
Annotation(success, failures, parameters) ==
    [success |-> success, failures |-> failures, parameters |-> parameters]

Status(statusCode, description) ==
    [statusCode |-> statusCode, description |-> description]

\* The annotations of the handlers: <<>> is none (annotations == nil)
AnnotationInputs ==
    {<<>>,
     <<Annotation(<<>>, <<>>, <<>>)>>,
     <<Annotation(<<Status(201, "Created")>>, <<Status(400, "Invalid input")>>,
                  <<>>)>>,
     <<Annotation(<<Status(200, "OK")>>,
                  <<Status(404, "Not found"), Status(500, "Broken"),
                    Status(500, "Broken again")>>,
                  <<[name |-> <<"limit">>, in |-> "query", description |-> "Max",
                     required |-> FALSE, type |-> Bare("int")],
                    [name |-> <<"payload">>, in |-> "body", description |-> "",
                     required |-> TRUE, type |-> Bare("Node")]>>)>>,
     <<Annotation(<<>>, <<Status(401, "No token")>>, <<>>)>>,
     <<Annotation(<<Status(200, "User found")>>,
                  <<Status(404, "User not found")>>,
                  <<[name |-> <<"id">>, in |-> "path", description |-> "User ID",
                     required |-> TRUE, type |-> Bare("int")]>>)>>}

\* generateResponseSchema("")
generateResponseSchema == TypeSchema("object")

\* buildResponses: the success response
SuccessResponses(annotations) ==
    IF annotations # <<>> /\ annotations[1].success # <<>>
    THEN LET success == annotations[1].success[1]
         IN  [code \in {Itoa(success.statusCode)} |->
                Response(success.description, "application/json",
                         generateResponseSchema)]
    ELSE [code \in {"200"} |->
            Response("Successful response", "application/json",
                     TypeSchema("object"))]

\* buildResponses: the loop over annotations.Failures
RECURSIVE AddFailures(_, _)
AddFailures(responses, failures) ==
    IF failures = <<>> THEN responses
    ELSE AddFailures(
            SetProperty(responses, Itoa(Head(failures).statusCode),
                        Response(Head(failures).description,
                                 "application/problem+json", ProblemDetails)),
            Tail(failures))

\* buildResponses
buildResponses(annotations) ==
    LET responses == AddFailures(SuccessResponses(annotations),
                        IF annotations = <<>> THEN <<>>
                        ELSE annotations[1].failures)
    IN  [code \in (DOMAIN responses) \cup (DOMAIN standardErrors) |->
            IF code \in DOMAIN responses THEN responses[code]
            ELSE standardErrors[code]]

\* buildOperation: the parameters the annotation adds (none in "body")
RECURSIVE AnnotationParameters(_)
AnnotationParameters(parameters) ==
    IF parameters = <<>> THEN <<>>
    ELSE (IF Head(parameters).in = "body" THEN <<>>
          ELSE <<[name |-> Head(parameters).name, in |-> Head(parameters).in,
                  description |-> Head(parameters).description,
                  required |-> Head(parameters).required,
                  schema |-> TypeSchema(mapGoTypeToOpenAPI(Head(parameters).type))]>>)
         \o AnnotationParameters(Tail(parameters))

\* buildOperation: Parameters and Responses of the operation
buildOperation(route, annotations) ==
    [parameters |->
        extractPathParameters(route) \o
        (IF annotations = <<>> THEN <<>>
         ELSE AnnotationParameters(annotations[1].parameters)),
     responses |-> buildResponses(annotations)]

\* g.buildOperation(handler, route, method, middlewares) for a handler with
\* the given annotation
BuildOperationCall(route, annotations) ==
    Apply("buildOperation", <<route, annotations>>,
          buildOperation(route, annotations))

\* The names of the placeholders of a part, in the order they appear: the
\* tokens that follow a "{"
PlaceholdersOfPart(part) ==
    Flatten([i \in 1..Len(part) |->
                IF part[i] = "{" /\ i < Len(part) THEN <<part[i + 1]>> ELSE <<>>])

\* The names of the placeholders of a route pattern in order of appearance
Placeholders(route) ==
    Flatten([i \in 1..Len(route) |-> PlaceholdersOfPart(route[i])])

\* The last annotated failure with the given code: <<>> if there is none
RECURSIVE LastFailure(_, _)
LastFailure(failures, code) ==
    IF failures = <<>> THEN <<>>
    ELSE IF Itoa(failures[Len(failures)].statusCode) = code
         THEN <<failures[Len(failures)]>>
    ELSE LastFailure(SubSeq(failures, 1, Len(failures) - 1), code)

\* C18: without an annotation the operation's parameters are the
\* placeholders of the route pattern, one path parameter (required, string)
\* per placeholder in order of appearance, and its responses are the default
\* 200 with an object schema and the standard 400, 401 and 500; with any
\* annotation 400, 401 and 500 are present, as annotated if a failure has
\* the code and as the standard entry otherwise.
C18_UnannotatedOperation ==
    applied.fn = "buildOperation" =>
        LET route == applied.args[1]
            annotations == applied.args[2]
            out == applied.out
        IN  /\ annotations = <<>> =>
                /\ out.parameters =
                       [i \in 1..Len(Placeholders(route)) |->
                           PathParameter(<<Placeholders(route)[i]>>)]
                /\ DOMAIN out.responses = {"200", "400", "401", "500"}
                /\ out.responses["200"] =
                       Response("Successful response", "application/json",
                                TypeSchema("object"))
                /\ \A code \in DOMAIN standardErrors :
                       out.responses[code] = standardErrors[code]
            /\ annotations # <<>> =>
                \A code \in DOMAIN standardErrors :
                    /\ code \in DOMAIN out.responses
                    /\ out.responses[code] =
                        IF LastFailure(annotations[1].failures, code) # <<>>
                        THEN Response(
                               LastFailure(annotations[1].failures, code)[1].description,
                               "application/problem+json", ProblemDetails)
                        ELSE standardErrors[code]

\* C26: within one operation built by buildOperation no two parameters
\* have the same (name, in) pair, also when the route has the placeholder
\* {id} and the annotation declares the path parameter id, and no parameter
\* of the list is in "body".
C26_ParametersUnique ==
    applied.fn = "buildOperation" =>
        LET parameters == applied.out.parameters
        IN  /\ \A i, j \in DOMAIN parameters :
                (/\ parameters[i].name = parameters[j].name
                 /\ parameters[i].in = parameters[j].in) => i = j
            /\ \A i \in DOMAIN parameters : parameters[i].in # "body"

\* ------------------------------------------------------------------------
\* Part III: route discovery and GenerateSpec
\* ------------------------------------------------------------------------

\* One route registered on a router, as RouteInfo has it: Method, Pattern
\* and HandlerName.  The pattern is its parts between the "/", a part is
\* its tokens ("openapi.json" is "openapi" and ".json").
RouteTo(method, pattern, handlerName) ==
    [method |-> method, pattern |-> pattern, handler |-> handlerName]

\* A route of the application
Route(method, pattern) == RouteTo(method, pattern, "app")

\* A chi.Router: nil, or the routes registered on it in the order chi.Walk
\* visits them.
Router(routes) == [nil |-> FALSE, routes |-> routes]
NilRouter == [nil |-> TRUE, routes |-> <<>>]

RouterInputs ==
    {NilRouter,
     Router(<<>>),
     Router(<<Route("GET", <<<<>>, <<"items">>, <<"{", "id", "}">>>>),
              Route("POST", <<<<>>, <<"items">>>>),
              RouteTo("GET", <<<<>>, <<"swagger">>, <<"*">>>>, "swagger-ui"),
              RouteTo("GET", <<<<>>, <<"openapi", ".json">>>>, "CachedHandler"),
              Route("GET", <<<<>>, <<"openapi", "-clients">>>>),
              Route("DELETE", <<<<>>, <<"items">>, <<"{", "id", "}">>>>)>>)}

\* What chi.Walk(r, fn) can do: call fn for every route and return nil, or
\* stop after some of them and return an error.
WalkOutcomes(routes) ==
    {[visited |-> Len(routes), err |-> <<>>]}
    \cup {[visited |-> k, err |-> <<"walk stopped">>] : k \in 0..(Len(routes) - 1)}

\* &RouteDiscoveryError{Operation, Err}; Unwrap() returns Err
RouteDiscoveryError(operation, err) ==
    [type |-> "*RouteDiscoveryError", operation |-> operation, err |-> err]

\* InspectRoutes for one outcome of the walk: routes <<>> is nil
InspectRoutes(r, walk) ==
    IF r.nil
    THEN [routes |-> <<>>,
          err |-> <<RouteDiscoveryError("inspect", "router cannot be nil")>>]
    ELSE IF walk.err # <<>>
         THEN [routes |-> <<>>,
               err |-> <<RouteDiscoveryError("walk", walk.err[1])>>]
    ELSE [routes |-> SubSeq(r.routes, 1, walk.visited), err |-> <<>>]

\* strings.Contains(ri.Pattern, "/swagger") || strings.Contains(ri.Pattern,
\* "/openapi"): a part of the pattern that follows a "/" starts with one of
\* the two words
IsInternal(pattern) ==
    \E i \in 2..Len(pattern) :
        pattern[i] # <<>> /\ Head(pattern[i]) \in {"swagger", "openapi"}

\* DiscoverRoutes
DiscoverRoutes(r, walk) ==
    LET infos == InspectRoutes(r, walk)
        NotInternal(ri) == ~IsInternal(ri.pattern)
    IN  IF infos.err # <<>> THEN [routes |-> <<>>, err |-> infos.err]
        ELSE [routes |-> SelectSeq(infos.routes, NotInternal), err |-> <<>>]

\* DiscoverRoutes(r) for one outcome of the walk
DiscoverRoutesCall(r) ==
    \E walk \in WalkOutcomes(r.routes) :
        Apply("DiscoverRoutes", <<r, walk>>, DiscoverRoutes(r, walk))

\* The routes that serve the generator itself: the document handler, the
\* file and invalidation handlers, the Swagger UI
IsTooling(ri) == ri.handler \in {"CachedHandler", "swagger-ui"}

\* C25: DiscoverRoutes returns, in their order, exactly the routes
\* InspectRoutes reports that are not tooling routes of the generator: no
\* tooling route is returned and no route of the application is dropped.
C25_ExactlyTheApplicationRoutes ==
    applied.fn = "DiscoverRoutes" /\ applied.out.err = <<>> =>
        LET infos == InspectRoutes(applied.args[1], applied.args[2])
            Documented(ri) == ~IsTooling(ri)
        IN  applied.out.routes = SelectSeq(infos.routes, Documented)

\* strings.ToLower(method)
ToLower(method) ==
    CASE method = "GET" -> "get" [] method = "POST" -> "post"
      [] method = "DELETE" -> "delete"

\* capitalize: the first letter of the text in upper case
capitalize(part) ==
    IF part = <<>> THEN part
    ELSE <<CASE Head(part) = "health" -> "Health"
             [] Head(part) = "items" -> "Items"
             [] Head(part) = "users" -> "Users"
             [] Head(part) = "posts" -> "Posts"
             [] Head(part) = "files" -> "Files"
             [] Head(part) = "v" -> "V"
             [] OTHER -> Head(part)>> \o Tail(part)

\* generateOperationID: the method in lower case, then the parts of the
\* route that are not empty and hold no "{", capitalized and joined
\* without a separator.
generateOperationID(method, route) ==
    <<ToLower(method)>> \o
    Flatten([i \in 1..Len(route) |->
                IF route[i] # <<>> /\ \A k \in 1..Len(route[i]) : route[i][k] # "{"
                THEN capitalize(route[i])
                ELSE <<>>])

\* The (method, pattern) pairs of the operations of a document
OperationInputs ==
    {"GET", "POST", "DELETE"} \X (RouteInputs \cup {<<<<>>, <<"items">>>>})

\* buildOperation sets OperationID: generateOperationID(method, route) for
\* two operations of one document.
GenerateOperationIDCall(a, b) ==
    Apply("generateOperationID", <<a, b>>,
          <<generateOperationID(a[1], a[2]), generateOperationID(b[1], b[2])>>)

\* C27: two operations of a document with different (method, pattern)
\* pairs never get the same operationId.
C27_OperationIdsUnique ==
    applied.fn = "generateOperationID" =>
        (applied.args[1] # applied.args[2] => applied.out[1] # applied.out[2])

\* GenerateSpec, the loop over the routes: spec.Paths[pathKey][method]
RECURSIVE AddOperations(_, _)
AddOperations(paths, routes) ==
    IF routes = <<>> THEN paths
    ELSE AddOperations(
            SetProperty(paths,
                        <<Head(routes).pattern, ToLower(Head(routes).method)>>,
                        buildOperation(Head(routes).pattern, <<>>)),
            Tail(routes))

\* GenerateSpec: the paths of the document it returns (the error of
\* DiscoverRoutes is logged, the loop runs over the routes returned)
GenerateSpecPaths(r, walk) == AddOperations(<<>>, DiscoverRoutes(r, walk).routes)

\* g.GenerateSpec(router, cfg) for one outcome of the walk: the error
\* DiscoverRoutes reported, and the paths of the document returned
GenerateSpecCall(r) ==
    \E walk \in WalkOutcomes(r.routes) :
        Apply("GenerateSpec", <<r, walk>>,
              [err |-> DiscoverRoutes(r, walk).err,
               paths |-> GenerateSpecPaths(r, walk)])

\* C19: a failed traversal is reported as a *RouteDiscoveryError, "inspect"
\* for a nil router and "walk" with the cause for a failed walk, and the
\* document GenerateSpec returns then holds the operations of the routes the
\* walk had visited before it failed.
C19_DiscoveryErrorNonFatal ==
    applied.fn = "GenerateSpec" =>
        LET r == applied.args[1]
            walk == applied.args[2]
            out == applied.out
        IN  /\ r.nil =>
                out.err = <<RouteDiscoveryError("inspect", "router cannot be nil")>>
            /\ ~r.nil /\ walk.err # <<>> =>
                out.err = <<RouteDiscoveryError("walk", walk.err[1])>>
            /\ \A i \in 1..walk.visited :
                ~r.nil /\ ~IsInternal(r.routes[i].pattern) =>
                    /\ <<r.routes[i].pattern, ToLower(r.routes[i].method)>>
                            \in DOMAIN out.paths
                    /\ out.paths[<<r.routes[i].pattern, ToLower(r.routes[i].method)>>]
                            = buildOperation(r.routes[i].pattern, <<>>)

\* ------------------------------------------------------------------------
\* Part III: BuildTypeIndex
\* ------------------------------------------------------------------------

\* One path filepath.Walk hands to the callback: kind is "dir", "go" (a
\* name that ends in .go and not in _test.go), "test" (ends in _test.go) or
\* "other"; err: the walk reports an error for the path; parses: whether
\* parser.ParseFile accepts the file; pkg and types: what the file declares.
Entry(path, kind, err, parses, pkg, typeNames) ==
    [path |-> path, kind |-> kind, err |-> err, parses |-> parses,
     pkg |-> pkg, types |-> typeNames]

\* The paths a project root can hold, in the lexical order of the walk
RootEntries ==
    <<Entry("a", "dir", FALSE, FALSE, "", {}),
      Entry("a/a.go", "go", FALSE, TRUE, "a", {"A"}),
      Entry("a/bad.go", "go", FALSE, FALSE, "a", {"Lost"}),
      Entry("a/locked", "dir", TRUE, FALSE, "", {}),
      Entry("a/z.go", "go", FALSE, TRUE, "a", {"A", "Z"}),
      Entry("b/b_test.go", "test", FALSE, TRUE, "b", {"T"}),
      Entry("b/gone.go", "go", TRUE, TRUE, "b", {"Gone"}),
      Entry("b/notes.md", "other", FALSE, FALSE, "", {}),
      Entry("c/c.go", "go", FALSE, TRUE, "c", {"C", "D"})>>

\* A path that fails: it does not parse, or the walk reports an error
Bad(entry) == entry.err \/ (entry.kind = "go" /\ ~entry.parses)

\* The part of a sequence at the positions of a set, in order
RECURSIVE Pick(_, _)
Pick(seq, keep) ==
    IF seq = <<>> THEN <<>>
    ELSE (IF Len(seq) \in keep THEN Pick(SubSeq(seq, 1, Len(seq) - 1), keep)
                                      \o <<seq[Len(seq)]>>
          ELSE Pick(SubSeq(seq, 1, Len(seq) - 1), keep))

\* The project roots the index is built over: those with one bad path at
\* most
TreeInputs ==
    {Pick(RootEntries, keep) : keep \in
        {k \in SUBSET (1..Len(RootEntries)) :
            Cardinality({i \in k : Bad(RootEntries[i])}) <= 1}}

\* &TypeIndex{...}: the maps of a new index - types (package -> type ->
\* spec), qualifiedTypes (qualified name -> spec) - and the paths that are
\* keys of files
EmptyIndex == [types |-> <<>>, qualifiedTypes |-> <<>>, files |-> {}]

\* The *ast.TypeSpec of a type declaration: the declaration of the name in
\* the file at the path
TypeSpecAt(path, typeName) == [file |-> path, name |-> typeName]

\* idx.getQualifiedTypeName(pkg, typeName): pkg + "." + typeName on both
\* branches
getQualifiedTypeName(pkg, typeName) == Qualified(pkg, typeName)

\* m[k] = new[k] for every key k of new
Assign(m, new) ==
    [k \in DOMAIN m \cup DOMAIN new |-> IF k \in DOMAIN new THEN new[k] ELSE m[k]]

\* Mutant of indexFile: the flattened map keeps the declaration it has
indexFileKeepFirst(idx, entry) ==
    IF ~entry.parses THEN idx
    ELSE [types |->
              SetProperty(idx.types, entry.pkg,
                  Assign(IF entry.pkg \in DOMAIN idx.types
                         THEN idx.types[entry.pkg] ELSE <<>>,
                         [t \in entry.types |-> TypeSpecAt(entry.path, t)])),
          qualifiedTypes |->
              Assign([q \in {getQualifiedTypeName(entry.pkg, t) :
                                t \in entry.types} |->
                        TypeSpecAt(entry.path, q.id)],
                     idx.qualifiedTypes),
          files |-> idx.files \cup {entry.path}]

\* indexFile: a file that does not parse is left out, nil is returned; of
\* a file that parses every type declaration is stored in both maps.
indexFile(idx, entry) ==
    IF ~entry.parses THEN idx
    ELSE [types |->
              SetProperty(idx.types, entry.pkg,
                  Assign(IF entry.pkg \in DOMAIN idx.types
                         THEN idx.types[entry.pkg] ELSE <<>>,
                         [t \in entry.types |-> TypeSpecAt(entry.path, t)])),
          qualifiedTypes |->
              Assign(idx.qualifiedTypes,
                     [q \in {getQualifiedTypeName(entry.pkg, t) :
                                t \in entry.types} |->
                        TypeSpecAt(entry.path, q.id)]),
          files |-> idx.files \cup {entry.path}]

\* The callback BuildTypeIndex gives to filepath.Walk: the index after the
\* call and whether the callback returns an error
WalkFunc(idx, entry) ==
    IF \/ entry.err
       \/ entry.kind = "dir"
       \/ entry.kind \notin {"go", "test"}
       \/ entry.kind = "test"
    THEN [idx |-> idx, err |-> entry.err]
    ELSE [idx |-> indexFile(idx, entry), err |-> FALSE]

\* filepath.Walk: the callback is called path after path; an error it
\* returns ends the walk.
RECURSIVE Walk(_, _)
Walk(idx, entries) ==
    IF entries = <<>> THEN idx
    ELSE IF WalkFunc(idx, Head(entries)).err
         THEN WalkFunc(idx, Head(entries)).idx
    ELSE Walk(WalkFunc(idx, Head(entries)).idx, Tail(entries))

\* BuildTypeIndex over a project root
BuildTypeIndex(entries) == Walk(EmptyIndex, entries)

BuildTypeIndexCall(entries) ==
    Apply("BuildTypeIndex", <<entries>>, BuildTypeIndex(entries))

\* C20: whatever single path of the root fails, every file of the root
\* that ends in .go, is no test file and parses is in the index with all
\* the types it declares.
C20_BadFileNeverAborts ==
    applied.fn = "BuildTypeIndex" =>
        LET entries == applied.args[1]
        IN  \A i \in 1..Len(entries) :
                entries[i].kind = "go" /\ ~Bad(entries[i]) =>
                    /\ entries[i].path \in applied.out.files
                    /\ entries[i].pkg \in DOMAIN applied.out.types
                    /\ \A t \in entries[i].types :
                            t \in DOMAIN applied.out.types[entries[i].pkg]

\* The file indexed last among those that declare the type: its path
LastIndexed(entries, idx, pkg, typeName) ==
    LET at == {i \in 1..Len(entries) :
                 /\ entries[i].path \in idx.files
                 /\ entries[i].pkg = pkg
                 /\ typeName \in entries[i].types}
    IN  entries[CHOOSE i \in at : \A j \in at : j <= i].path

\* C24: after BuildTypeIndex has indexed the files of a root, the
\* flattened map and the scoped map agree: qualifiedTypes has the key p.T
\* exactly if types[p] has the key T, both hold the same declaration, and
\* that declaration is the one of the file indexed last among the files
\* that declare T in package p.
C24_IndexMapsAgree ==
    applied.fn = "BuildTypeIndex" =>
        LET entries == applied.args[1]
            idx == applied.out
        IN  /\ \A q \in DOMAIN idx.qualifiedTypes :
                /\ q.pre = <<>>
                /\ q.pkg \in DOMAIN idx.types
                /\ q.id \in DOMAIN idx.types[q.pkg]
            /\ \A p \in DOMAIN idx.types :
                \A t \in DOMAIN idx.types[p] :
                    /\ Qualified(p, t) \in DOMAIN idx.qualifiedTypes
                    /\ idx.qualifiedTypes[Qualified(p, t)] = idx.types[p][t]
                    /\ idx.types[p][t]
                           = TypeSpecAt(LastIndexed(entries, idx, p, t), t)

\* Two files of package a that both declare A were indexed, a/z.go last,
\* and a file of another package.
C24_Witness ==
    /\ applied.fn = "BuildTypeIndex"
    /\ {"a/a.go", "a/z.go", "c/c.go"} \subseteq applied.out.files
    /\ applied.out.qualifiedTypes[Qualified("a", "A")] = TypeSpecAt("a/z.go", "A")

\* ------------------------------------------------------------------------
\* Part III: the $refs of a document and its components.schemas
\* ------------------------------------------------------------------------

\* The names the $refs of a schema point at, and the prefixes they carry.
RECURSIVE Refs(_)
Refs(schema) ==
    (IF schema.ref = NoRef THEN {} ELSE {schema.ref})
    \cup UNION {Refs(schema.items[i]) : i \in DOMAIN schema.items}
    \cup UNION {Refs(schema.additionalProperties[i]) :
                  i \in DOMAIN schema.additionalProperties}
    \cup UNION {Refs(schema.properties[k]) : k \in DOMAIN schema.properties}

\* The schemas the operations of the document hold: what GenerateSchema
\* returned to generateResponseSchema for the annotated types, and the
\* ProblemDetails reference of the standard error responses.
OperationSchemas ==
    {r.ret : r \in {x \in returned : x.depth = 0 /\ x.fn = "GenerateSchema"}}
    \cup {ProblemDetails}

\* The $refs of a document with these components.
DocumentRefs(components) ==
    UNION {Refs(s) : s \in OperationSchemas}
    \cup UNION {Refs(components[k]) : k \in DOMAIN components}

CallsNext ==
    \/ \E schema \in TagSchemas, tag \in TagInputs :
            ApplyEnhancedTagsCall(schema, tag)
    \/ \E qualifiedName \in EnumRequests : HandleEnumTypeCall(qualifiedName)
    \/ \E typeName \in RequestNames : GetQualifiedTypeNameCall(typeName)
    \/ \E typeName \in RequestNames : GetQualifiedTypeNameRuns(typeName)
    \/ \E route \in RouteInputs, annotations \in AnnotationInputs :
            BuildOperationCall(route, annotations)
    \/ \E r \in RouterInputs : GenerateSpecCall(r)
    \/ \E r \in RouterInputs : DiscoverRoutesCall(r)
    \/ \E a \in OperationInputs, b \in OperationInputs :
            GenerateOperationIDCall(a, b)
    \/ \E entries \in TreeInputs : BuildTypeIndexCall(entries)

SpecCalls == Init /\ [][CallsNext]_vars

====
